---- MODULE Spec2Model ----
(***************************************************************************)
(* Orastria book generator: the chart resolver of                          *)
(* orastria_ai_book_complete.py (geocoding, timezone, token, planet        *)
(* positions, kundli, parsing, fallback tiers), its numerology calculator, *)
(* and the /generate and /generate-simple endpoints of app.py.             *)
(*                                                                         *)
(* Text that the code inspects character by character (place names, birth  *)
(* dates, display names) is a sequence of characters.                      *)
(*                                                                         *)
(* Longitudes are Python floats.  A float is modelled as an integer count  *)
(* of 1/Unit degrees, and every float operation of the source rounds its   *)
(* exact result to Precision significant bits (round half to even), as     *)
(* IEEE-754 arithmetic does with 53 bits.                                  *)
(***************************************************************************)
EXTENDS Integers, Sequences, FiniteSets, TLC

VARIABLES
    arg_longitude,   \* the longitude handed to longitude_to_tropical_sign
    arg_rasi,        \* the rasi id handed to the rasi branch
    res_sign,        \* what longitude_to_tropical_sign returned (or raised)
    res_rasi_sign,   \* what the rasi branch produced
    arg_place,       \* the place name handed to get_timezone_from_coords
    arg_lat,         \* the latitude handed to it, in whole degrees
    arg_lon,         \* the longitude handed to it, in whole degrees
    arg_lib,         \* what the timezonefinder library does for these coordinates
    res_timezone,    \* what get_timezone_from_coords returned
    res_offset,      \* what get_tz_offset returned for it
    arg_birth_date,  \* the birth date handed to calculate_life_path
    arg_name,        \* the name handed to calculate_expression_number
    life_path,       \* the life-path number computed, once it is
    expression_number, \* the expression number computed, once it is
    endpoint,        \* the route of app.py the request was posted to
    creds,           \* which of PROKERALA_CLIENT_ID / _SECRET are non-empty
    data,            \* JSON body of the POST
    user_data,       \* the normalised questionnaire generate_simple builds
    pc,              \* position of the request in app.py / generate_book
    birth_time,      \* the birth time generate_book hands to the resolver
    geo,             \* latitude, longitude, timezone from geocode_location
    sent,            \* the external requests issued so far, with their outcome
    datetime_str,    \* the 'datetime' parameter of the two ephemeris requests
    planet_data,     \* body of the planet-position response (its 'data')
    asc_data,        \* body of the kundli response (its 'data'), or None
    chart,           \* what parse_chart_data returned (or raised)
    chart_data,      \* generate_book's chart_data
    resolver_raised, \* the exception that left get_chart_from_prokerala
    temp_file,       \* whether the temporary PDF file exists
    response,        \* the HTTP response, once sent
    polls,           \* the status polls call_claude_api has made
    poll_status,     \* the status the last poll reported
    poll_output,     \* the output the last poll carried
    api_result,       \* what call_claude_api returned
    text_api,        \* the result of each call of the text API for this book
    content          \* what generate_all returned (or raised)

signVars == << arg_longitude, arg_rasi, res_sign, res_rasi_sign >>

zoneVars == << arg_place, arg_lat, arg_lon, arg_lib, res_timezone, res_offset >>

numerologyVars == << arg_birth_date, arg_name, life_path, expression_number >>

requestVars == << endpoint, creds, data, user_data, birth_time, geo, sent, datetime_str >>

parseVars == << planet_data, asc_data, chart >>

resultVars == << chart_data, resolver_raised, temp_file, response >>

pollVars == << polls, poll_status, poll_output, api_result >>

contentVars == << text_api, content >>

vars == << signVars, zoneVars, numerologyVars, pc, requestVars, parseVars, resultVars, pollVars, contentVars >>

\* ------------------------------------------------------------------------
\* Bounds of the model
\* ------------------------------------------------------------------------

\* significant bits of a modelled float (53 in CPython)
Precision == 12

\* longest planet_position list the parser is exercised on
MaxRecords == 2

\* number of model units in one degree: 1 unit is the float spacing in [4, 8)
Unit == 2 ^ (Precision - 3)

\* ------------------------------------------------------------------------
\* Float arithmetic
\* ------------------------------------------------------------------------

Abs(n) == IF n < 0 THEN 0 - n ELSE n

\* position of the leading bit of a positive integer
Exponent(n) == CHOOSE e \in 0..40 : 2 ^ e <= n /\ n < 2 ^ (e + 1)

\* spacing of the floats around a positive integer count of units
Quantum(n) == IF Exponent(n) < Precision THEN 1 ELSE 2 ^ (Exponent(n) - Precision + 1)

\* a / b (a >= 0, b > 0) rounded to the nearest integer, ties to even
RoundHalfEven(a, b) ==
    LET q == a \div b
        r == a % b
    IN  IF 2 * r < b THEN q
        ELSE IF 2 * r > b THEN q + 1
        ELSE IF q % 2 = 0 THEN q ELSE q + 1

\* the float nearest to an exact value of n units
RoundToFloat(n) ==
    IF n = 0 THEN 0
    ELSE LET m == Abs(n)
             q == Quantum(m)
             v == RoundHalfEven(m, q) * q
         IN  IF n < 0 THEN 0 - v ELSE v

IsFloat(n) == RoundToFloat(n) = n

\* x + y on floats
FloatAdd(x, y) == RoundToFloat(x + y)

\* C fmod(x, w) for w > 0: exact, with the sign of x
CFmod(x, w) == IF x < 0 THEN 0 - (Abs(x) % w) ELSE x % w

\* Python's x % w on floats for w > 0 (float_rem): fmod, then w is added to
\* a negative remainder, and that addition rounds
FloatMod(x, w) ==
    LET m == CFmod(x, w)
    IN  IF m < 0 THEN FloatAdd(m, w) ELSE m

\* the shift k >= 0 that brings a / b (0 < a / b < 2^Precision) to Precision
\* significant bits: 2^(Precision-1) <= (a / b) * 2^k < 2^Precision
RECURSIVE Shift(_, _)
Shift(a, b) == IF a >= 2 ^ (Precision - 1) * b THEN 0 ELSE 1 + Shift(2 * a, b)

\* int(x / d) for a float x >= 0 and a whole number of degrees d: the
\* quotient x / d is rounded to a float, and int() truncates it
FloatDivInt(x, d) ==
    IF x = 0 THEN 0
    ELSE LET k == Shift(x, d * Unit)
             mantissa == RoundHalfEven(x * 2 ^ k, d * Unit)
         IN  mantissa \div 2 ^ k

\* ------------------------------------------------------------------------
\* Sign mapper
\* ------------------------------------------------------------------------

ZODIAC_SIGNS ==
    << "Aries", "Taurus", "Gemini", "Cancer", "Leo", "Virgo",
       "Libra", "Scorpio", "Sagittarius", "Capricorn", "Aquarius", "Pisces" >>

SignNames == { ZODIAC_SIGNS[i] : i \in 1..12 }

\* Lahiri offset in degrees
AYANAMSA == 24

\* the exception a list index outside 0..11 raises
IndexError == "IndexError"

\* ZODIAC_SIGNS[i] with Python's 0-based index (negative indexes are not
\* produced by the callers)
SignAt(i) == IF i \in 0..11 THEN ZODIAC_SIGNS[i + 1] ELSE IndexError

\* mutant of tropical_longitude: the offset is left out
tropical_longitude_without_offset(longitude) == FloatMod(longitude, 360 * Unit)

\* (longitude + AYANAMSA) % 360
tropical_longitude(longitude) == FloatMod(FloatAdd(longitude, AYANAMSA * Unit), 360 * Unit)

sign_index(longitude) == FloatDivInt(tropical_longitude(longitude), 30)

longitude_to_tropical_sign(longitude) == SignAt(sign_index(longitude))

\* mutant of tropical_rasi_sign: the sidereal index taken as it is
tropical_rasi_sign_unshifted(rasi_id) ==
    IF 0 <= rasi_id /\ rasi_id < 12
    THEN ZODIAC_SIGNS[(rasi_id % 12) + 1]
    ELSE "Aries"

\* the rasi branch of parse_chart_data
tropical_rasi_sign(rasi_id) ==
    IF 0 <= rasi_id /\ rasi_id < 12
    THEN ZODIAC_SIGNS[((rasi_id + 1) % 12) + 1]
    ELSE "Aries"

\* ------------------------------------------------------------------------
\* JSON values of the ephemeris responses
\* ------------------------------------------------------------------------

\* a result not computed yet
Unset == "unset"

\* Python's None
None == [none |-> TRUE]

\* an exception in flight
Raise(name) == [exception |-> name]

IsRaise(v) == "exception" \in DOMAIN v

\* a JSON object without members
EmptyDict == [k \in {} |-> ""]

\* a key that the JSON object does not carry
Missing == [missing |-> TRUE]

\* a JSON number
Num(n) == [num |-> n]

\* a string of text
Text(s) == [text |-> s]

\* a JSON value of a type the code does not expect there (null, a string
\* where a number is read, a non-object where .get is called)
Bad == [bad |-> TRUE]

IsNum(v) == "num" \in DOMAIN v

\* one element of data['planet_position']: its name, its 'longitude' and
\* the 'id' of its 'rasi' (Missing: no 'rasi', or a 'rasi' without 'id')
Planet(name, longitude, rasi) == [name |-> name, longitude |-> longitude, rasi |-> rasi]

\* a planet-position body with these records
Positions(planets) == [planet_position |-> planets]

\* a kundli body whose 'ascendant' carries this 'longitude'
Kundli(longitude) == [ascendant |-> [longitude |-> longitude]]

\* ------------------------------------------------------------------------
\* parse_chart_data
\* ------------------------------------------------------------------------

ChartKeys ==
    { "sun_sign", "moon_sign", "rising_sign", "mercury", "venus", "mars",
      "jupiter", "saturn", "midheaven", "north_node" }

\* the chart parse_chart_data starts from
DefaultChart == [k \in ChartKeys |-> "Aries"]

planet_name_map ==
    [ Sun |-> "sun_sign", Moon |-> "moon_sign", Mercury |-> "mercury",
      Venus |-> "venus", Mars |-> "mars", Jupiter |-> "jupiter",
      Saturn |-> "saturn", Rahu |-> "north_node", Ascendant |-> "rising_sign" ]

\* mutant of planet_sign: a rasi id in range is preferred to the longitude
planet_sign_rasi_first(planet) ==
    LET longitude == IF planet.longitude = Missing THEN Num(0) ELSE planet.longitude
    IN  IF ~IsNum(longitude) THEN "TypeError"
        ELSE IF IsNum(planet.rasi) /\ planet.rasi.num \in 0..11
        THEN tropical_rasi_sign(planet.rasi.num)
        ELSE IF longitude.num > 0 THEN longitude_to_tropical_sign(longitude.num)
        ELSE IF planet.rasi = Bad THEN "TypeError"
        ELSE "Aries"

\* the sign one record gives, or the name of the exception reading it raises
planet_sign(planet) ==
    LET longitude == IF planet.longitude = Missing THEN Num(0) ELSE planet.longitude
    IN  IF ~IsNum(longitude) THEN "TypeError"
        ELSE IF longitude.num > 0 THEN longitude_to_tropical_sign(longitude.num)
        ELSE IF planet.rasi = Bad THEN "TypeError"
        ELSE LET rasi_id == IF planet.rasi = Missing THEN -1 ELSE planet.rasi.num
             IN  tropical_rasi_sign(rasi_id)

\* the loop over data['planet_position'], from the chart built so far
RECURSIVE parse_planet_positions(_, _)
parse_planet_positions(planets, acc) ==
    IF planets = << >> THEN acc
    ELSE LET planet == Head(planets)
             sign_name == planet_sign(planet)
         IN  IF sign_name \notin SignNames THEN Raise(sign_name)
             ELSE parse_planet_positions(
                     Tail(planets),
                     IF planet.name \in DOMAIN planet_name_map
                     THEN [acc EXCEPT ![planet_name_map[planet.name]] = sign_name]
                     ELSE acc)

\* mutant of apply_kundli: the kundli ascendant only fills a rising sign
\* that the planet-position response left at its default
apply_kundli_when_unset(acc, kundli_data) ==
    IF kundli_data = None THEN acc
    ELSE IF kundli_data = Bad THEN Raise("AttributeError")
    ELSE IF kundli_data.ascendant = Missing THEN acc
    ELSE IF kundli_data.ascendant = Bad THEN Raise("AttributeError")
    ELSE LET asc_longitude ==
                 IF kundli_data.ascendant.longitude = Missing THEN Num(0)
                 ELSE kundli_data.ascendant.longitude
         IN  IF ~IsNum(asc_longitude) THEN Raise("TypeError")
             ELSE IF asc_longitude.num > 0 /\ acc.rising_sign = "Aries"
             THEN [acc EXCEPT !["rising_sign"] = longitude_to_tropical_sign(asc_longitude.num)]
             ELSE acc

\* the rising sign taken from the kundli body, when it is there
apply_kundli(acc, kundli_data) ==
    IF kundli_data = None THEN acc
    ELSE IF kundli_data = Bad THEN Raise("AttributeError")
    ELSE IF kundli_data.ascendant = Missing THEN acc
    ELSE IF kundli_data.ascendant = Bad THEN Raise("AttributeError")
    ELSE LET asc_longitude ==
                 IF kundli_data.ascendant.longitude = Missing THEN Num(0)
                 ELSE kundli_data.ascendant.longitude
         IN  IF ~IsNum(asc_longitude) THEN Raise("TypeError")
             ELSE IF asc_longitude.num > 0
             THEN LET sign_name == longitude_to_tropical_sign(asc_longitude.num)
                  IN  IF sign_name \notin SignNames THEN Raise(sign_name)
                      ELSE [acc EXCEPT !["rising_sign"] = sign_name]
             ELSE acc

\* the chart, or the exception raised on the way
parse_chart_data(planet_body, kundli_data) ==
    IF planet_body = Bad THEN Raise("AttributeError")
    ELSE LET acc == parse_planet_positions(planet_body.planet_position, DefaultChart)
         IN  IF IsRaise(acc) THEN acc ELSE apply_kundli(acc, kundli_data)

\* ------------------------------------------------------------------------
\* Strings as sequences of characters
\* ------------------------------------------------------------------------

\* the characters of a string of the model (a month name is kept whole)
Chars(s) ==
    CASE s = "" -> << >>
      [] s = "Paris" -> << "P", "a", "r", "i", "s" >>
      [] s = "Paris, France" -> << "P", "a", "r", "i", "s", ",", " ", "F", "r", "a", "n", "c", "e" >>
      [] s = "LONDON" -> << "L", "O", "N", "D", "O", "N" >>
      [] s = "New York, UK" -> << "N", "e", "w", " ", "Y", "o", "r", "k", ",", " ", "U", "K" >>
      [] s = "Milwaukee" -> << "M", "i", "l", "w", "a", "u", "k", "e", "e" >>
      [] s = "Beirut, Lebanon" -> << "B", "e", "i", "r", "u", "t", ",", " ", "L", "e", "b", "a", "n", "o", "n" >>
      [] s = "Reading, Pennsylvania, USA" -> << "R", "e", "a", "d", "i", "n", "g", ",", " ", "P", "e", "n", "n", "s", "y", "l", "v", "a", "n", "i", "a", ",", " ", "U", "S", "A" >>
      [] s = "Springfield" -> << "S", "p", "r", "i", "n", "g", "f", "i", "e", "l", "d" >>
      [] s = "paris" -> << "p", "a", "r", "i", "s" >>
      [] s = "france" -> << "f", "r", "a", "n", "c", "e" >>
      [] s = "london" -> << "l", "o", "n", "d", "o", "n" >>
      [] s = "uk" -> << "u", "k" >>
      [] s = "england" -> << "e", "n", "g", "l", "a", "n", "d" >>
      [] s = "new york" -> << "n", "e", "w", " ", "y", "o", "r", "k" >>
      [] s = "los angeles" -> << "l", "o", "s", " ", "a", "n", "g", "e", "l", "e", "s" >>
      [] s = "california" -> << "c", "a", "l", "i", "f", "o", "r", "n", "i", "a" >>
      [] s = "chicago" -> << "c", "h", "i", "c", "a", "g", "o" >>
      [] s = "dubai" -> << "d", "u", "b", "a", "i" >>
      [] s = "uae" -> << "u", "a", "e" >>
      [] s = "tokyo" -> << "t", "o", "k", "y", "o" >>
      [] s = "japan" -> << "j", "a", "p", "a", "n" >>
      [] s = "sydney" -> << "s", "y", "d", "n", "e", "y" >>
      [] s = "australia" -> << "a", "u", "s", "t", "r", "a", "l", "i", "a" >>
      [] s = "berlin" -> << "b", "e", "r", "l", "i", "n" >>
      [] s = "germany" -> << "g", "e", "r", "m", "a", "n", "y" >>
      [] s = "rome" -> << "r", "o", "m", "e" >>
      [] s = "italy" -> << "i", "t", "a", "l", "y" >>
      [] s = "madrid" -> << "m", "a", "d", "r", "i", "d" >>
      [] s = "spain" -> << "s", "p", "a", "i", "n" >>
      [] s = "moscow" -> << "m", "o", "s", "c", "o", "w" >>
      [] s = "russia" -> << "r", "u", "s", "s", "i", "a" >>
      [] s = "beijing" -> << "b", "e", "i", "j", "i", "n", "g" >>
      [] s = "china" -> << "c", "h", "i", "n", "a" >>
      [] s = "india" -> << "i", "n", "d", "i", "a" >>
      [] s = "mumbai" -> << "m", "u", "m", "b", "a", "i" >>
      [] s = "delhi" -> << "d", "e", "l", "h", "i" >>
      [] s = "beirut" -> << "b", "e", "i", "r", "u", "t" >>
      [] s = "lebanon" -> << "l", "e", "b", "a", "n", "o", "n" >>
      [] s = "Tokyo" -> << "T", "o", "k", "y", "o" >>
      [] s = "1989-12-13" -> << "1", "9", "8", "9", "-", "1", "2", "-", "1", "3" >>
      [] s = "1989-12" -> << "1", "9", "8", "9", "-", "1", "2" >>
      [] s = "1989-xx-13" -> << "1", "9", "8", "9", "-", "x", "x", "-", "1", "3" >>
      [] s = "1989--13" -> << "1", "9", "8", "9", "-", "-", "1", "3" >>
      [] s = "abc" -> << "a", "b", "c" >>
      [] s = "12/13/1989" -> << "1", "2", "/", "1", "3", "/", "1", "9", "8", "9" >>
      [] s = "2000-01-01-junk" -> << "2", "0", "0", "0", "-", "0", "1", "-", "0", "1", "-", "j", "u", "n", "k" >>
      [] s = "1989-12-13T10:00" -> << "1", "9", "8", "9", "-", "1", "2", "-", "1", "3", "T", "1", "0", ":", "0", "0" >>
      [] s = "0000-00-00" -> << "0", "0", "0", "0", "-", "0", "0", "-", "0", "0" >>
      [] s = " 1989 - 12 - 13 " -> << " ", "1", "9", "8", "9", " ", "-", " ", "1", "2", " ", "-", " ", "1", "3", " " >>
      [] s = "+1989-12-13" -> << "+", "1", "9", "8", "9", "-", "1", "2", "-", "1", "3" >>
      [] s = "December 13, 1989" -> << "December", " ", "1", "3", ",", " ", "1", "9", "8", "9" >>
      [] s = "December 3, 1989" -> << "December", " ", "3", ",", " ", "1", "9", "8", "9" >>
      [] s = "December  03,  1989" -> << "December", " ", " ", "0", "3", ",", " ", " ", "1", "9", "8", "9" >>
      [] s = "December 32, 1989" -> << "December", " ", "3", "2", ",", " ", "1", "9", "8", "9" >>
      [] s = "February 29, 1989" -> << "February", " ", "2", "9", ",", " ", "1", "9", "8", "9" >>
      [] s = "February 29, 2000" -> << "February", " ", "2", "9", ",", " ", "2", "0", "0", "0" >>
      [] s = "December 13 1989" -> << "December", " ", "1", "3", " ", "1", "9", "8", "9" >>
      [] s = "December 13, 89" -> << "December", " ", "1", "3", ",", " ", "8", "9" >>
      [] s = "13 December 1989" -> << "1", "3", " ", "December", " ", "1", "9", "8", "9" >>
      [] s = "Ann" -> << "A", "n", "n" >>
      [] s = "Ann Lee" -> << "A", "n", "n", " ", "L", "e", "e" >>
      [] s = "Friend" -> << "F", "r", "i", "e", "n", "d" >>
      [] s = "Lee" -> << "L", "e", "e" >>
      [] s = "2024" -> << "2", "0", "2", "4" >>
      [] s = " " -> << " " >>
      [] s = "2000-01-01" -> << "2", "0", "0", "0", "-", "0", "1", "-", "0", "1" >>

Uppercase ==
    << "A", "B", "C", "D", "E", "F", "G", "H", "I", "J", "K", "L", "M",
       "N", "O", "P", "Q", "R", "S", "T", "U", "V", "W", "X", "Y", "Z" >>

Lowercase ==
    << "a", "b", "c", "d", "e", "f", "g", "h", "i", "j", "k", "l", "m",
       "n", "o", "p", "q", "r", "s", "t", "u", "v", "w", "x", "y", "z" >>

\* the position of c in the sequence letters, 0 when it is not in it
IndexIn(c, letters) ==
    IF \E i \in 1..Len(letters) : letters[i] = c
    THEN CHOOSE i \in 1..Len(letters) : letters[i] = c
    ELSE 0

\* c.lower()
LowerChar(c) == IF IndexIn(c, Uppercase) > 0 THEN Lowercase[IndexIn(c, Uppercase)] ELSE c

\* s.lower()
Lower(s) == [i \in 1..Len(s) |-> LowerChar(s[i])]

\* needle in hay
Contains(hay, needle) ==
    \E i \in 0..(Len(hay) - Len(needle)) : SubSeq(hay, i + 1, i + Len(needle)) = needle

\* ------------------------------------------------------------------------
\* Location resolver
\* ------------------------------------------------------------------------

\* the keyword checks in the order the code makes them
KeywordZones ==
    << [keywords |-> {"paris", "france"}, zone |-> "Europe/Paris"],
       [keywords |-> {"london", "uk", "england"}, zone |-> "Europe/London"],
       [keywords |-> {"new york"}, zone |-> "America/New_York"],
       [keywords |-> {"los angeles", "california"}, zone |-> "America/Los_Angeles"],
       [keywords |-> {"chicago"}, zone |-> "America/Chicago"],
       [keywords |-> {"dubai", "uae"}, zone |-> "Asia/Dubai"],
       [keywords |-> {"tokyo", "japan"}, zone |-> "Asia/Tokyo"],
       [keywords |-> {"sydney", "australia"}, zone |-> "Australia/Sydney"],
       [keywords |-> {"berlin", "germany"}, zone |-> "Europe/Berlin"],
       [keywords |-> {"rome", "italy"}, zone |-> "Europe/Rome"],
       [keywords |-> {"madrid", "spain"}, zone |-> "Europe/Madrid"],
       [keywords |-> {"moscow", "russia"}, zone |-> "Europe/Moscow"],
       [keywords |-> {"beijing", "china"}, zone |-> "Asia/Shanghai"],
       [keywords |-> {"india", "mumbai", "delhi"}, zone |-> "Asia/Kolkata"],
       [keywords |-> {"beirut", "lebanon"}, zone |-> "Asia/Beirut"] >>

\* every keyword the code looks for
Keywords == UNION { KeywordZones[i].keywords : i \in 1..Len(KeywordZones) }

\* the keywords of guess_timezone_from_coords that occur in place_name.lower()
KeywordsIn(place_name) ==
    LET place_lower == Lower(Chars(place_name))
    IN  { k \in Keywords : Contains(place_lower, Chars(k)) }

\* mutant of longitude_band: each band closed at its upper edge
longitude_band_inclusive(lon) ==
    IF lon <= -100 THEN "America/Los_Angeles"
    ELSE IF lon <= -60 THEN "America/New_York"
    ELSE IF lon <= 0 THEN "Europe/London"
    ELSE IF lon <= 30 THEN "Europe/Paris"
    ELSE IF lon <= 60 THEN "Asia/Dubai"
    ELSE IF lon <= 100 THEN "Asia/Kolkata"
    ELSE IF lon <= 130 THEN "Asia/Shanghai"
    ELSE "Asia/Tokyo"

\* the longitude bands, lon in whole degrees
longitude_band(lon) ==
    IF lon < -100 THEN "America/Los_Angeles"
    ELSE IF lon < -60 THEN "America/New_York"
    ELSE IF lon < 0 THEN "Europe/London"
    ELSE IF lon < 30 THEN "Europe/Paris"
    ELSE IF lon < 60 THEN "Asia/Dubai"
    ELSE IF lon < 100 THEN "Asia/Kolkata"
    ELSE IF lon < 130 THEN "Asia/Shanghai"
    ELSE "Asia/Tokyo"

\* mutant of guess_timezone_from_coords: the keywords are matched against
\* place_name as it is written
guess_timezone_case_sensitive(lat, lon, place_name) ==
    LET found == { k \in Keywords : Contains(Chars(place_name), Chars(k)) }
        hits == { i \in 1..Len(KeywordZones) : KeywordZones[i].keywords \cap found # {} }
    IN  IF hits # {}
        THEN KeywordZones[CHOOSE i \in hits : \A j \in hits : i <= j].zone
        ELSE longitude_band(lon)

guess_timezone_from_coords(lat, lon, place_name) ==
    LET found == KeywordsIn(place_name)
        hits == { i \in 1..Len(KeywordZones) : KeywordZones[i].keywords \cap found # {} }
    IN  IF hits # {}
        THEN KeywordZones[CHOOSE i \in hits : \A j \in hits : i <= j].zone
        ELSE longitude_band(lon)

\* what the timezonefinder library does: a zone name, or one of these
LibraryFailures == { "no zone", "ImportError", "error" }

\* mutant of get_timezone_from_coords: an error of the library is not caught
get_timezone_library_errors_raised(lat, lon, place_name, lib) ==
    IF lib \notin LibraryFailures THEN lib
    ELSE IF lib = "no zone" THEN guess_timezone_from_coords(lat, lon, place_name)
    ELSE lib

\* lib is the library's outcome for (lat, lon)
get_timezone_from_coords(lat, lon, place_name, lib) ==
    IF lib \notin LibraryFailures THEN lib
    ELSE guess_timezone_from_coords(lat, lon, place_name)

\* mutant of offsets: the table has no entry for Asia/Beirut
offsets_without_beirut ==
    ("America/New_York" :> "-05:00") @@ ("America/Chicago" :> "-06:00")
    @@ ("America/Los_Angeles" :> "-08:00") @@ ("America/Denver" :> "-07:00")
    @@ ("Europe/London" :> "+00:00") @@ ("Europe/Paris" :> "+01:00")
    @@ ("Europe/Berlin" :> "+01:00") @@ ("Europe/Rome" :> "+01:00")
    @@ ("Europe/Madrid" :> "+01:00") @@ ("Europe/Moscow" :> "+03:00")
    @@ ("Asia/Dubai" :> "+04:00") @@ ("Asia/Kolkata" :> "+05:30")
    @@ ("Asia/Shanghai" :> "+08:00") @@ ("Asia/Tokyo" :> "+09:00")
    @@ ("Australia/Sydney" :> "+11:00") @@ ("Pacific/Auckland" :> "+13:00")
    @@ ("UTC" :> "+00:00")

\* the offsets dictionary of get_tz_offset
offsets ==
    ("Asia/Beirut" :> "+02:00")
    @@ ("America/New_York" :> "-05:00") @@ ("America/Chicago" :> "-06:00")
    @@ ("America/Los_Angeles" :> "-08:00") @@ ("America/Denver" :> "-07:00")
    @@ ("Europe/London" :> "+00:00") @@ ("Europe/Paris" :> "+01:00")
    @@ ("Europe/Berlin" :> "+01:00") @@ ("Europe/Rome" :> "+01:00")
    @@ ("Europe/Madrid" :> "+01:00") @@ ("Europe/Moscow" :> "+03:00")
    @@ ("Asia/Dubai" :> "+04:00") @@ ("Asia/Kolkata" :> "+05:30")
    @@ ("Asia/Shanghai" :> "+08:00") @@ ("Asia/Tokyo" :> "+09:00")
    @@ ("Australia/Sydney" :> "+11:00") @@ ("Pacific/Auckland" :> "+13:00")
    @@ ("UTC" :> "+00:00")

\* offsets.get(timezone, '+00:00')
get_tz_offset(tz) == IF tz \in DOMAIN offsets THEN offsets[tz] ELSE "+00:00"

\* ------------------------------------------------------------------------
\* Numerology
\* ------------------------------------------------------------------------

Digits == << "0", "1", "2", "3", "4", "5", "6", "7", "8", "9" >>

IsDigit(c) == IndexIn(c, Digits) > 0

\* int(d) of one digit character
DigitValue(c) == IndexIn(c, Digits) - 1

\* s.split(sep), sep one character
RECURSIVE Split(_, _)
Split(s, sep) ==
    IF \E i \in 1..Len(s) : s[i] = sep
    THEN LET i == CHOOSE k \in 1..Len(s) : s[k] = sep /\ \A j \in 1..(k - 1) : s[j] # sep
         IN  << SubSeq(s, 1, i - 1) >> \o Split(SubSeq(s, i + 1, Len(s)), sep)
    ELSE << s >>

\* s.strip() for blanks
RECURSIVE StripBlanks(_)
StripBlanks(s) ==
    IF s = << >> THEN s
    ELSE IF Head(s) = " " THEN StripBlanks(Tail(s))
    ELSE IF s[Len(s)] = " " THEN StripBlanks(SubSeq(s, 1, Len(s) - 1))
    ELSE s

\* the number written by a sequence of digit characters
RECURSIVE DecimalValue(_)
DecimalValue(s) ==
    IF s = << >> THEN 0
    ELSE 10 * DecimalValue(SubSeq(s, 1, Len(s) - 1)) + DigitValue(s[Len(s)])

\* int(s): blanks around the number and a leading '+' are accepted
ParseInt(s) ==
    LET t == StripBlanks(s)
        u == IF t # << >> /\ Head(t) = "+" THEN Tail(t) ELSE t
    IN  IF u # << >> /\ \A i \in 1..Len(u) : IsDigit(u[i])
        THEN Num(DecimalValue(u))
        ELSE Raise("ValueError")

\* str(n) for n >= 0
RECURSIVE Str(_)
Str(n) == IF n < 10 THEN << Digits[n + 1] >> ELSE Str(n \div 10) \o << Digits[(n % 10) + 1] >>

\* sum(int(d) for d in s)
RECURSIVE SumOfDigits(_)
SumOfDigits(s) == IF s = << >> THEN 0 ELSE DigitValue(Head(s)) + SumOfDigits(Tail(s))

\* mutant of reduce_total: 11, 22 and 33 are reduced like any other total
RECURSIVE reduce_total_to_one_digit(_)
reduce_total_to_one_digit(total) ==
    IF total > 9 THEN reduce_total_to_one_digit(SumOfDigits(Str(total))) ELSE total

\* while total > 9 and total not in [11, 22, 33]: total = sum of its digits
RECURSIVE reduce_total(_)
reduce_total(total) ==
    IF total > 9 /\ total \notin {11, 22, 33}
    THEN reduce_total(SumOfDigits(Str(total)))
    ELSE total

MonthNames ==
    << "January", "February", "March", "April", "May", "June", "July",
       "August", "September", "October", "November", "December" >>

IsLeapYear(year) == year % 4 = 0 /\ (year % 100 # 0 \/ year % 400 = 0)

DaysIn(month, year) ==
    IF month = 2 THEN (IF IsLeapYear(year) THEN 29 ELSE 28)
    ELSE IF month \in {4, 6, 9, 11} THEN 30
    ELSE 31

\* the first position from i on that holds no blank
RECURSIVE SkipBlanks(_, _)
SkipBlanks(s, i) == IF i <= Len(s) /\ s[i] = " " THEN SkipBlanks(s, i + 1) ELSE i

\* datetime.strptime(s, "%B %d, %Y"): a month name, blanks, a day of one or
\* two digits, a comma, blanks, a year of four digits, and nothing else
strptime_long_form(s) ==
    LET n == Len(s)
        a == SkipBlanks(s, 2)
        two == a + 1 <= n /\ IsDigit(s[a + 1])
        c == IF two THEN a + 2 ELSE a + 1
        b == SkipBlanks(s, c + 1)
        month == IndexIn(s[1], MonthNames)
        day == DecimalValue(SubSeq(s, a, c - 1))
        year == DecimalValue(SubSeq(s, b, n))
    IN  IF /\ n >= 1 /\ month > 0
           /\ a > 2 /\ a <= n /\ IsDigit(s[a])
           /\ day \in 1..31
           /\ c <= n /\ s[c] = ","
           /\ b > c + 1 /\ b + 3 = n
           /\ \A i \in b..n : IsDigit(s[i])
           /\ year >= 1 /\ day <= DaysIn(month, year)
        THEN [year |-> year, month |-> month, day |-> day]
        ELSE Raise("ValueError")

\* the try block of calculate_life_path: the total, or the exception raised
life_path_total(birth_date) ==
    IF Contains(birth_date, << "-" >>)
    THEN LET parts == Split(birth_date, "-")
             year == ParseInt(parts[1])
             month == ParseInt(parts[2])
             day == ParseInt(parts[3])
         IN  IF IsRaise(year) THEN year
             ELSE IF IsRaise(month) THEN month
             ELSE IF Len(parts) < 3 THEN Raise("IndexError")
             ELSE IF IsRaise(day) THEN day
             ELSE Num(reduce_total(SumOfDigits(Str(year.num)) + SumOfDigits(Str(month.num))
                                   + SumOfDigits(Str(day.num))))
    ELSE LET dt == strptime_long_form(birth_date)
         IN  IF IsRaise(dt) THEN dt
             ELSE Num(reduce_total(SumOfDigits(Str(dt.year)) + SumOfDigits(Str(dt.month))
                                   + SumOfDigits(Str(dt.day))))

\* mutant of calculate_life_path: only ValueError is caught
life_path_value_errors_only(birth_date) ==
    LET total == life_path_total(birth_date)
    IN  IF IsRaise(total) /\ total.exception = "ValueError" THEN Num(7) ELSE total

calculate_life_path(birth_date) ==
    LET total == life_path_total(birth_date)
    IN  IF IsRaise(total) THEN Num(7) ELSE total

\* letter_values, in the order of Lowercase
letter_values ==
    << 1, 2, 3, 4, 5, 6, 7, 8, 9, 1, 2, 3, 4, 5, 6, 7, 8, 9, 1, 2, 3, 4, 5, 6, 7, 8 >>

\* letters outside a-z for which c.isalpha() holds, among the characters used
OtherLetters == { "e_acute" }

\* c.isalpha()
IsAlpha(c) == IndexIn(c, Uppercase) > 0 \/ IndexIn(c, Lowercase) > 0 \/ c \in OtherLetters

\* letter_values.get(c.lower(), 0)
LetterValue(c) ==
    LET i == IndexIn(LowerChar(c), Lowercase)
    IN  IF i > 0 THEN letter_values[i] ELSE 0

\* sum(letter_values.get(c.lower(), 0) for c in name if c.isalpha())
RECURSIVE SumOfLetters(_)
SumOfLetters(name) ==
    IF name = << >> THEN 0
    ELSE (IF IsAlpha(Head(name)) THEN LetterValue(Head(name)) ELSE 0) + SumOfLetters(Tail(name))

\* mutant of calculate_expression_number: a digit of the name counts as itself
RECURSIVE SumOfLettersAndDigits(_)
SumOfLettersAndDigits(name) ==
    IF name = << >> THEN 0
    ELSE (IF IsAlpha(Head(name)) THEN LetterValue(Head(name))
          ELSE IF IsDigit(Head(name)) THEN DigitValue(Head(name)) ELSE 0)
         + SumOfLettersAndDigits(Tail(name))

expression_number_with_digits(name) == Num(reduce_total(SumOfLettersAndDigits(name)))

calculate_expression_number(name) == Num(reduce_total(SumOfLetters(name)))

\* ------------------------------------------------------------------------
\* /generate-simple: normalisation and validation (app.py)
\* ------------------------------------------------------------------------

\* data.get(k) or '': the value of a field, '' when absent, null or empty
DataGet(d, k) == IF k \in DOMAIN d THEN d[k] ELSE ""

\* a or b on strings
Or(a, b) == IF a # "" THEN a ELSE b

\* s.strip(), for the values the model uses
Strip(s) == IF s \in {" ", "  "} THEN "" ELSE s

\* f"{a} {b}".strip()
JoinNames(a, b) ==
    IF a = "" THEN Strip(b) ELSE IF Strip(b) = "" THEN Strip(a) ELSE a \o " " \o b

\* the fallback chart fields of the request, each with its aliases
ChartAliases ==
    [ sun_sign |-> << "sun_sign", "sunSign" >>,
      moon_sign |-> << "moon_sign", "moonSign" >>,
      rising_sign |-> << "rising_sign", "risingSign", "ascendant" >>,
      mercury |-> << "mercury" >>,
      venus |-> << "venus" >>,
      mars |-> << "mars" >>,
      jupiter |-> << "jupiter" >>,
      saturn |-> << "saturn" >>,
      midheaven |-> << "midheaven" >>,
      north_node |-> << "north_node", "northNode" >> ]

\* data.get(a1) or data.get(a2) or ... or ''
RECURSIVE FirstOf(_, _)
FirstOf(d, names) ==
    IF names = << >> THEN ""
    ELSE Or(DataGet(d, Head(names)), FirstOf(d, Tail(names)))

\* the user_data dictionary of generate_simple, before the name is ensured
\* (the questionnaire fields that only feed the prompts are left out)
normalise(d) ==
    [ first_name |-> FirstOf(d, << "first_name", "firstName", "name" >>),
      last_name |-> FirstOf(d, << "last_name", "lastName" >>),
      name |-> Or(DataGet(d, "name"),
                  JoinNames(DataGet(d, "first_name"), DataGet(d, "last_name"))),
      birth_date |-> FirstOf(d, << "birth_date", "birthDate", "dob" >>),
      birth_time |-> Or(FirstOf(d, << "birth_time", "birthTime" >>), "12:00"),
      birth_time_period |-> Or(FirstOf(d, << "birth_time_period", "birthTimePeriod" >>), "PM"),
      birth_place |-> FirstOf(d, << "birth_place", "birthPlace", "location" >>),
      important_dates |-> FirstOf(d, << "important_dates", "importantDates" >>),
      sun_sign |-> FirstOf(d, ChartAliases.sun_sign),
      moon_sign |-> FirstOf(d, ChartAliases.moon_sign),
      rising_sign |-> FirstOf(d, ChartAliases.rising_sign),
      mercury |-> FirstOf(d, ChartAliases.mercury),
      venus |-> FirstOf(d, ChartAliases.venus),
      mars |-> FirstOf(d, ChartAliases.mars),
      jupiter |-> FirstOf(d, ChartAliases.jupiter),
      saturn |-> FirstOf(d, ChartAliases.saturn),
      midheaven |-> FirstOf(d, ChartAliases.midheaven),
      north_node |-> FirstOf(d, ChartAliases.north_node) ]

\* "Ensure name is set"
ensure_name(ud) ==
    IF Strip(ud.name) = ""
    THEN [ud EXCEPT !.name = Or(ud.first_name, "Friend")]
    ELSE ud

\* mutant of validation_error: the birth place is not required
validation_error_without_place(ud) ==
    IF ud.first_name = "" /\ ud.name = "" THEN "Missing name or first_name"
    ELSE IF ud.birth_date = "" THEN "Missing birth_date"
    ELSE ""

\* the error message of the first failed validation, '' when all pass
validation_error(ud) ==
    IF ud.first_name = "" /\ ud.name = "" THEN "Missing name or first_name"
    ELSE IF ud.birth_date = "" THEN "Missing birth_date"
    ELSE IF ud.birth_place = "" THEN "Missing birth_place"
    ELSE ""

\* d.get(k, {}) for a member that is an object
DictGet(d, k) == IF k \in DOMAIN d THEN d[k] ELSE EmptyDict

\* the name generate_book_endpoint checks
endpoint_name(ud) ==
    Or(DataGet(ud, "name"), JoinNames(DataGet(ud, "first_name"), DataGet(ud, "last_name")))

\* the error message of the first failed check of /generate, '' when all pass
generate_validation_error(ud, cd) ==
    IF endpoint_name(ud) = "" THEN "Missing user name"
    ELSE IF DataGet(cd, "sun_sign") = "" THEN "Missing sun_sign in chart_data"
    ELSE ""

\* AIContentGenerator.__init__: self.name
content_name(ud) == Or(endpoint_name(ud), "Friend")

\* AIContentGenerator.__init__: self.first_name is taken from
\* self.name.split()[0] when there is no first_name, which raises IndexError
\* for a blank name
first_name_raises(ud) == DataGet(ud, "first_name") = "" /\ Strip(content_name(ud)) = ""

\* user_data.get("birth_date", "2000-01-01")
content_birth_date(ud) == IF "birth_date" \in DOMAIN ud THEN ud["birth_date"] ELSE "2000-01-01"

\* jsonify(...) with its status code
Response(status, success, download_url, error) ==
    [status |-> status, success |-> success, download_url |-> download_url, error |-> error]

\* the except clause of generate_simple
ServerError(e) == Response(500, "false", "absent", e)

\* ------------------------------------------------------------------------
\* generate_book: credentials, birth time, fallback tier
\* ------------------------------------------------------------------------

\* mutant of HasCredentials: the client secret is not looked at
HasClientId(c) == c.client_id

\* PROKERALA_CLIENT_ID and PROKERALA_CLIENT_SECRET
HasCredentials(c) == c.client_id /\ c.client_secret

\* birth_time strings: whether they hold ':' and what int(parts[0]) gives
\* (numeric FALSE: int() raises ValueError)
ParseTime(t) ==
    CASE t = "12:00" -> [colon |-> TRUE, numeric |-> TRUE, hour |-> 12, minute |-> "00"]
      [] t = "05:17" -> [colon |-> TRUE, numeric |-> TRUE, hour |-> 5, minute |-> "17"]
      [] t = "13:30" -> [colon |-> TRUE, numeric |-> TRUE, hour |-> 13, minute |-> "30"]
      [] t = "ab:cd" -> [colon |-> TRUE, numeric |-> FALSE, hour |-> 0, minute |-> "cd"]
      [] OTHER -> [colon |-> FALSE, numeric |-> FALSE, hour |-> 0, minute |-> ""]

\* str.upper() on the period
Upper(period) == IF period = "pm" THEN "PM" ELSE IF period = "am" THEN "AM" ELSE period

\* f"{hour:02d}:{parts[1]}"
FormatTime(hour, minute) == [hour |-> hour, minute |-> minute]

\* the 12-hour to 24-hour conversion: the time handed on, or ValueError
convert_birth_time(t, period) ==
    LET time_period == Upper(period)
        parts == ParseTime(t)
    IN  IF time_period \in {"PM", "AM"} /\ parts.colon
        THEN IF ~parts.numeric THEN Raise("ValueError")
             ELSE IF time_period = "PM"
             THEN FormatTime(IF parts.hour # 12 THEN parts.hour + 12 ELSE parts.hour,
                             parts.minute)
             ELSE FormatTime(IF parts.hour = 12 THEN 0 ELSE parts.hour, parts.minute)
        ELSE [text |-> t]

\* mutant of default_tier: 'Aries' only for a key that is not there, as
\* user_data.get(k, 'Aries') would give
default_tier_missing_key_only(ud) == [k \in ChartKeys |-> ud[k]]

\* "Fall back to provided chart data or defaults"
default_tier(ud) == [k \in ChartKeys |-> IF ud[k] # "" THEN ud[k] ELSE "Aries"]

\* ------------------------------------------------------------------------
\* get_chart_from_prokerala: the external calls and the except clause
\* ------------------------------------------------------------------------

\* what one external request can come to
Outcomes == { "ok", "exception", "http_error", "malformed" }

\* the exception each failed outcome raises where the code checks it
ExceptionOf(outcome) ==
    CASE outcome = "exception" -> "ConnectionError"
      [] outcome = "http_error" -> "HTTPError"
      [] outcome = "malformed" -> "KeyError"
      [] outcome = "no_results" -> "ValueError"

\* the classes 'except Exception' catches, among those raised here
ExceptionSubclasses ==
    { "ConnectionError", "HTTPError", "KeyError", "ValueError", "TypeError",
      "AttributeError", "IndexError" }

\* mutant of caught_by_resolver: only the errors of the requests library
caught_request_errors_only(e) == e \in { "ConnectionError", "HTTPError" }

caught_by_resolver(e) == e \in ExceptionSubclasses

Called(call, outcome) == [call |-> call, outcome |-> outcome]

\* get_chart_from_prokerala ends with this result: a chart it returns, or an
\* exception its except clause turns into None
ResolverExit(result) ==
    IF ~IsRaise(result)
    THEN /\ chart_data' = result
         /\ pc' = "fallback"
         /\ UNCHANGED << resolver_raised, response >>
    ELSE IF caught_by_resolver(result.exception)
    THEN /\ chart_data' = None
         /\ pc' = "fallback"
         /\ UNCHANGED << resolver_raised, response >>
    ELSE /\ resolver_raised' = result
         /\ response' = ServerError(result.exception)
         /\ pc' = "responded"
         /\ UNCHANGED chart_data

\* ------------------------------------------------------------------------
\* Inputs of the request model
\* ------------------------------------------------------------------------

\* a complete request: name, birth date, birth place
BaseRequest ==
    ("name" :> "Ann") @@ ("birth_date" :> "1989-12-13") @@ ("birth_place" :> "Paris")

\* every field name under which a fallback chart value can arrive
SuppliedFields ==
    UNION { { ChartAliases[k][i] : i \in 1..Len(ChartAliases[k]) } : k \in ChartKeys }

\* a sign name, and a string that is not one
SuppliedValues == { "Leo", "Dragon" }

BirthTimes == { "05:17", "12:00", "13:30", "ab:cd", "0517" }

Periods == { "AM", "PM", "pm" }

Without(d, k) == [x \in DOMAIN d \ {k} |-> d[x]]

Requests ==
    { BaseRequest, << >> }
    \cup { (f :> v) @@ BaseRequest : f \in SuppliedFields, v \in SuppliedValues }
    \cup { [k \in ChartKeys |-> "Leo"] @@ BaseRequest }
    \cup { ("birth_time" :> t) @@ BaseRequest : t \in BirthTimes }
    \cup { ("birth_time" :> t) @@ ("birth_time_period" :> p) @@ BaseRequest :
             t \in BirthTimes, p \in Periods }
    \cup { Without(BaseRequest, k) : k \in DOMAIN BaseRequest }
    \cup { ("first_name" :> "Ann") @@ ("last_name" :> "Lee") @@ Without(BaseRequest, "name") }
    \cup { ("birth_place" :> place) @@ BaseRequest :
             place \in { "Reading, Pennsylvania, USA", "Milwaukee" } }
    \cup { (alias :> "1989-12-13") @@ Without(BaseRequest, "birth_date") :
             alias \in { "birthDate", "dob" } }
    \cup { (alias :> "Paris") @@ Without(BaseRequest, "birth_place") :
             alias \in { "birthPlace", "location" } }
    \cup { (f :> "") @@ BaseRequest : f \in { "birth_date", "birth_place" } }
    \cup { ("name" :> "Ann") }
    \cup { ("name" :> "2024") @@ BaseRequest, ("birth_date" :> "0000-00-00") @@ BaseRequest }
    \cup { ("important_dates" :> "birthday") @@ BaseRequest }

\* the user_data objects posted to /generate
GenerateUsers ==
    { ("name" :> "Ann") @@ ("birth_date" :> "1989-12-13"),
      ("first_name" :> "Ann") @@ ("last_name" :> "Lee") @@ ("birth_date" :> "1989-12-13"),
      ("last_name" :> "Lee"),
      ("name" :> "Ann"),
      ("name" :> " "),
      ("name" :> "Ann") @@ ("important_dates" :> "birthday"),
      ("name" :> "2024") @@ ("birth_date" :> "0000-00-00"),
      ("birth_date" :> "1989-12-13"),
      EmptyDict }

\* the chart_data objects posted to /generate
GenerateCharts ==
    { ("sun_sign" :> "Leo"), ("sun_sign" :> "Leo") @@ ("moon_sign" :> "Dragon"),
      ("sun_sign" :> "Dragon"), EmptyDict }

\* bodies of the POST to /generate
GenerateRequests ==
    { EmptyDict }
    \cup { ("user_data" :> u) @@ ("chart_data" :> c) : u \in GenerateUsers, c \in GenerateCharts }
    \cup { ("chart_data" :> c) : c \in GenerateCharts }
    \cup { ("user_data" :> u) : u \in GenerateUsers }

\* coordinates the geocoder answers with, in whole degrees
Latitudes == { 40 }

GeoLongitudes == { -76, 35 }

\* what the timezone library answers
LibraryOutcomes == { "America/Denver", "Africa/Cairo" } \cup LibraryFailures

\* bodies of the planet-position response
PlanetPayloads ==
    { Positions(<< >>),
      Positions(<< Planet("Sun", Num(100 * Unit), Missing),
                   Planet("Moon", Missing, Num(11)),
                   Planet("Ascendant", Num(6 * Unit), Missing) >>),
      Positions(<< Planet("Sun", Bad, Missing) >>),
      Bad }

\* bodies of the kundli response
KundliPayloads == { Kundli(Num(200 * Unit)), [ascendant |-> Missing], Bad }

\* ------------------------------------------------------------------------
\* AIContentGenerator: the sections of the book
\* ------------------------------------------------------------------------

ZODIAC_ORDER == ZODIAC_SIGNS

\* ZODIAC_DATA[sign]['element']
ZODIAC_DATA ==
    [ Aries |-> "Fire", Taurus |-> "Earth", Gemini |-> "Air", Cancer |-> "Water",
      Leo |-> "Fire", Virgo |-> "Earth", Libra |-> "Air", Scorpio |-> "Water",
      Sagittarius |-> "Fire", Capricorn |-> "Earth", Aquarius |-> "Air",
      Pisces |-> "Water" ]

\* the names of the core sections, in the order generate_all asks for them
CoreSections ==
    << "introduction", "sun_sign", "moon_sign", "rising_sign", "personality",
       "love", "career", "forecast", "numerology", "tarot", "crystals", "closing" >>

all_months ==
    << "January", "February", "March", "April", "May", "June", "July",
       "August", "September", "October", "November", "December" >>

\* names[batch_start:batch_start+6]
Batch(names, batch_start) == SubSeq(names, batch_start + 1, batch_start + 6)

\* the calls of the text API generate_all can make: the two batches of
\* signs and of months (for batch_start in [0, 6]), and one for each section
BatchCalls == { "compatibility_0", "compatibility_6", "monthly_0", "monthly_6" }

SectionCalls == { CoreSections[i] : i \in 1..Len(CoreSections) } \cup { "important_dates" }

\* chart_data.get(k, "Aries")
ChartGet(cd, k) == IF k \in DOMAIN cd THEN cd[k] ELSE "Aries"

\* the text of a fallback
FallbackText(section) == [fallback |-> section]

\* _get_fallback: the whole dictionary is built before the section is
\* looked up, and with it ZODIAC_DATA[self.sun_sign] and
\* ZODIAC_DATA[self.rising_sign]
_get_fallback(section, cd) ==
    IF \/ ChartGet(cd, "sun_sign") \notin DOMAIN ZODIAC_DATA
       \/ ChartGet(cd, "rising_sign") \notin DOMAIN ZODIAC_DATA
    THEN Raise("KeyError")
    ELSE FallbackText(section)

\* result or ...: None and the empty string are falsy
Truthy(result) == result # None /\ result # Text("")

\* generate_section: self.content[section_name] = result or fallback
generate_section(so_far, section, result, cd) ==
    LET value == IF Truthy(result) THEN result ELSE _get_fallback(section, cd)
    IN  IF IsRaise(value) THEN value ELSE (section :> value) @@ so_far

\* for section_name, prompt in sections: self.generate_section(...)
RECURSIVE generate_sections(_, _, _, _)
generate_sections(sections, so_far, api, cd) ==
    IF sections = << >> \/ IsRaise(so_far) THEN so_far
    ELSE generate_sections(Tail(sections),
                           generate_section(so_far, Head(sections), api[Head(sections)], cd),
                           api, cd)

\* an entry a parser wrote, and the entry generate_all fills in
ParsedEntry(name) == [text |-> "parsed", percentage |-> 85]

DefaultEntry(name) == [text |-> "default", percentage |-> 70]

\* _parse_compat / _parse_monthly on one batch: an entry for each name of
\* the batch the patterns find in the text
parse_batch(entries, result, names) ==
    [ n \in DOMAIN entries \cup { names[i] : i \in { j \in 1..Len(names) : names[j] \in result.matches } } |->
        IF n \in DOMAIN entries THEN entries[n] ELSE ParsedEntry(n) ]

\* the two batched calls and the entries filled in for what is missing
batched(names, api, first_call, second_call) ==
    LET first == IF api[first_call] # None
                 THEN parse_batch(EmptyDict, api[first_call], Batch(names, 0))
                 ELSE EmptyDict
        both == IF api[second_call] # None
                THEN parse_batch(first, api[second_call], Batch(names, 6))
                ELSE first
    IN  [ n \in { names[i] : i \in 1..Len(names) } |->
            IF n \in DOMAIN both THEN both[n] ELSE DefaultEntry(n) ]

\* generate_all: the content dictionary, or the exception raised on the way;
\* api gives the result of each call of the text API
generate_all(ud, cd, api) ==
    LET core == generate_sections(CoreSections, EmptyDict, api, cd)
        dated == IF IsRaise(core) \/ DataGet(ud, "important_dates") = "" THEN core
                 ELSE generate_section(core, "important_dates", api["important_dates"], cd)
    IN  IF IsRaise(dated) THEN dated
        ELSE ("compatibility" :> batched(ZODIAC_ORDER, api, "compatibility_0", "compatibility_6"))
             @@ ("monthly" :> batched(all_months, api, "monthly_0", "monthly_6"))
             @@ dated

\* results of the text API for one book: of every call, of none, of all
\* but one, with an empty text, and with batches that are found in part
AllCalls(section_result, batch_result) ==
    [ c \in SectionCalls \cup BatchCalls |->
        IF c \in SectionCalls THEN section_result ELSE batch_result ]

EveryName == { ZODIAC_ORDER[i] : i \in 1..12 } \cup { all_months[i] : i \in 1..12 }

ApiResults ==
    { AllCalls(Text("text"), [matches |-> EveryName]),
      AllCalls(None, None),
      AllCalls(Text(""), [matches |-> {}]),
      AllCalls(Text("text"), [matches |-> { "Leo", "Pisces", "March" }]) }
    \cup { [ AllCalls(Text("text"), [matches |-> EveryName]) EXCEPT ![c] = None ] :
             c \in { "introduction", "love", "closing", "important_dates",
                     "compatibility_6", "monthly_0" } }

\* ------------------------------------------------------------------------
\* The request, step by step
\* ------------------------------------------------------------------------

\* no call of the sign mapper or of the timezone lookup has been made
SignIdle ==
    /\ arg_longitude = 0
    /\ arg_rasi = 0
    /\ res_sign = Unset
    /\ res_rasi_sign = Unset

ZoneIdle ==
    /\ arg_place = ""
    /\ arg_lat = 0
    /\ arg_lon = 0
    /\ arg_lib = "no zone"
    /\ res_timezone = Unset
    /\ res_offset = Unset

\* generate_all has not been called
ContentIdle ==
    /\ text_api = None
    /\ content = None

\* no call of call_claude_api has been made
PollIdle ==
    /\ polls = 0
    /\ poll_status = ""
    /\ poll_output = None
    /\ api_result = None

NumerologyIdle ==
    /\ arg_birth_date = << >>
    /\ arg_name = << >>
    /\ life_path = None
    /\ expression_number = None

Init ==
    /\ ZoneIdle
    /\ NumerologyIdle
    /\ arg_longitude = 0
    /\ arg_rasi = 0
    /\ res_sign = Unset
    /\ res_rasi_sign = Unset
    /\ creds \in [client_id : BOOLEAN, client_secret : BOOLEAN]
    /\ \/ endpoint = "/generate-simple" /\ data \in Requests
       \/ endpoint = "/generate" /\ data \in GenerateRequests
    /\ user_data = None
    /\ pc = "request"
    /\ birth_time = None
    /\ geo = None
    /\ sent = << >>
    /\ datetime_str = None
    /\ planet_data = None
    /\ asc_data = None
    /\ chart = None
    /\ chart_data = None
    /\ resolver_raised = None
    /\ temp_file = FALSE
    /\ response = None
    /\ PollIdle
    /\ ContentIdle

\* generate_simple up to the call of generate_book
GenerateSimple ==
    /\ endpoint = "/generate-simple"
    /\ pc = "request"
    /\ IF DOMAIN data = {}
       THEN /\ response' = Response(400, "absent", "absent", "No JSON data provided")
            /\ pc' = "responded"
            /\ UNCHANGED << user_data, temp_file >>
       ELSE LET ud == ensure_name(normalise(data))
                error == validation_error(ud)
            IN  /\ user_data' = ud
                /\ IF error # ""
                   THEN /\ response' = Response(400, "absent", "absent", error)
                        /\ pc' = "responded"
                        /\ UNCHANGED temp_file
                   ELSE /\ temp_file' = TRUE
                        /\ pc' = "generate_book"
                        /\ UNCHANGED response
    /\ UNCHANGED << signVars, zoneVars, numerologyVars, endpoint, creds, data, birth_time, geo, sent, datetime_str, parseVars >>
    /\ UNCHANGED << chart_data, resolver_raised >>
    /\ UNCHANGED pollVars
    /\ UNCHANGED contentVars

\* generate_book up to the first external request of the resolver
GenerateBook ==
    /\ pc = "generate_book"
    /\ IF HasCredentials(creds)
       THEN LET converted == convert_birth_time(user_data.birth_time,
                                                user_data.birth_time_period)
            IN  IF IsRaise(converted)
                THEN /\ response' = ServerError(converted.exception)
                     /\ pc' = "responded"
                     /\ UNCHANGED birth_time
                ELSE /\ birth_time' = converted
                     /\ pc' = "geocode"
                     /\ UNCHANGED response
       ELSE /\ pc' = "fallback"
            /\ UNCHANGED << birth_time, response >>
    /\ UNCHANGED << signVars, zoneVars, numerologyVars, endpoint, creds, data, user_data, geo, sent, datetime_str, parseVars >>
    /\ UNCHANGED << chart_data, resolver_raised, temp_file >>
    /\ UNCHANGED pollVars
    /\ UNCHANGED contentVars

\* mutant of GeocodeLocation: an answer with no results gives coordinates
\* (0, 0) in UTC instead of raising
GeocodeLocationZeroOnNoResults ==
    /\ pc = "geocode"
    /\ \E outcome \in Outcomes \cup {"no_results"} :
        /\ sent' = Append(sent, Called("geocode", outcome))
        /\ IF outcome \in {"ok", "no_results"}
           THEN /\ geo' = [latitude |-> 0, longitude |-> 0, timezone |-> "UTC"]
                /\ pc' = "token"
                /\ UNCHANGED resultVars
           ELSE /\ ResolverExit(Raise(ExceptionOf(outcome)))
                /\ UNCHANGED << geo, temp_file >>
    /\ UNCHANGED << signVars, zoneVars, numerologyVars, endpoint, creds, data, user_data, birth_time, datetime_str, parseVars >>
    /\ UNCHANGED pollVars
    /\ UNCHANGED contentVars

\* geocode_location: the Nominatim request, then the timezone
GeocodeLocation ==
    /\ pc = "geocode"
    /\ \E outcome \in Outcomes \cup {"no_results"} :
        /\ sent' = Append(sent, Called("geocode", outcome))
        /\ IF outcome = "ok"
           THEN /\ \E lat \in Latitudes, lon \in GeoLongitudes, lib \in LibraryOutcomes :
                     geo' = [ latitude |-> lat, longitude |-> lon,
                              timezone |-> get_timezone_from_coords(
                                              lat, lon, user_data.birth_place, lib) ]
                /\ pc' = "token"
                /\ UNCHANGED resultVars
           ELSE /\ ResolverExit(Raise(ExceptionOf(outcome)))
                /\ UNCHANGED << geo, temp_file >>
    /\ UNCHANGED << signVars, zoneVars, numerologyVars, endpoint, creds, data, user_data, birth_time, datetime_str, parseVars >>
    /\ UNCHANGED pollVars
    /\ UNCHANGED contentVars

\* mutant of TokenRequest: a failed token request is tried again
TokenRequestRetried ==
    /\ pc = "token"
    /\ \E outcome \in Outcomes :
        /\ sent' = Append(sent, Called("token", outcome))
        /\ pc' = IF outcome = "ok" THEN "planet" ELSE "token"
        /\ datetime_str' = [date |-> user_data.birth_date, time |-> birth_time,
                            offset |-> get_tz_offset(geo.timezone)]
        /\ UNCHANGED resultVars
    /\ UNCHANGED << signVars, zoneVars, numerologyVars, endpoint, creds, data, user_data, birth_time, geo, parseVars >>
    /\ UNCHANGED pollVars
    /\ UNCHANGED contentVars

\* get_birth_chart: get_prokerala_token, then the datetime parameter
TokenRequest ==
    /\ pc = "token"
    /\ \E outcome \in Outcomes :
        /\ sent' = Append(sent, Called("token", outcome))
        /\ IF outcome = "ok"
           THEN /\ datetime_str' = [date |-> user_data.birth_date, time |-> birth_time,
                                    offset |-> get_tz_offset(geo.timezone)]
                /\ pc' = "planet"
                /\ UNCHANGED resultVars
           ELSE /\ ResolverExit(Raise(ExceptionOf(outcome)))
                /\ UNCHANGED << datetime_str, temp_file >>
    /\ UNCHANGED << signVars, zoneVars, numerologyVars, endpoint, creds, data, user_data, birth_time, geo, parseVars >>
    /\ UNCHANGED pollVars
    /\ UNCHANGED contentVars

\* get_birth_chart: the planet-position request
PlanetPositionRequest ==
    /\ pc = "planet"
    /\ \E outcome \in Outcomes :
        /\ sent' = Append(sent, Called("planet-position", outcome))
        /\ IF outcome = "ok"
           THEN /\ \E body \in PlanetPayloads : planet_data' = body
                /\ pc' = "kundli"
                /\ UNCHANGED resultVars
           ELSE /\ ResolverExit(Raise(ExceptionOf(outcome)))
                /\ UNCHANGED << planet_data, temp_file >>
    /\ UNCHANGED << signVars, zoneVars, numerologyVars, endpoint, creds, data, user_data, birth_time, geo, datetime_str, asc_data, chart >>
    /\ UNCHANGED pollVars
    /\ UNCHANGED contentVars

\* mutant of KundliRequest: a non-success status of the kundli request is
\* raised like that of the other requests
KundliRequestStatusRaised ==
    /\ pc = "kundli"
    /\ \E outcome \in Outcomes :
        /\ sent' = Append(sent, Called("kundli", outcome))
        /\ IF outcome = "ok"
           THEN /\ \E body \in KundliPayloads : asc_data' = body
                /\ pc' = "parse"
                /\ UNCHANGED resultVars
           ELSE /\ ResolverExit(Raise(ExceptionOf(outcome)))
                /\ UNCHANGED << asc_data, temp_file >>
    /\ UNCHANGED << signVars, zoneVars, numerologyVars, endpoint, creds, data, user_data, birth_time, geo, datetime_str, planet_data, chart >>
    /\ UNCHANGED pollVars
    /\ UNCHANGED contentVars

\* get_birth_chart: the kundli request
KundliRequest ==
    /\ pc = "kundli"
    /\ \E outcome \in Outcomes :
        /\ sent' = Append(sent, Called("kundli", outcome))
        /\ CASE outcome = "ok" ->
                  /\ \E body \in KundliPayloads : asc_data' = body
                  /\ pc' = "parse"
                  /\ UNCHANGED resultVars
             [] outcome = "http_error" ->
                  /\ asc_data' = None
                  /\ pc' = "parse"
                  /\ UNCHANGED resultVars
             [] OTHER ->
                  /\ ResolverExit(Raise(ExceptionOf(outcome)))
                  /\ UNCHANGED << asc_data, temp_file >>
    /\ UNCHANGED << signVars, zoneVars, numerologyVars, endpoint, creds, data, user_data, birth_time, geo, datetime_str, planet_data, chart >>
    /\ UNCHANGED pollVars
    /\ UNCHANGED contentVars

\* parse_chart_data, and the return of get_chart_from_prokerala
ParseChartData ==
    /\ pc = "parse"
    /\ chart' = parse_chart_data(planet_data, asc_data)
    /\ ResolverExit(chart')
    /\ UNCHANGED << signVars, zoneVars, numerologyVars, requestVars, planet_data, asc_data, temp_file >>
    /\ UNCHANGED pollVars
    /\ UNCHANGED contentVars

\* generate_book: "Fall back to provided chart data or defaults"
Fallback ==
    /\ pc = "fallback"
    /\ chart_data' = IF chart_data = None THEN default_tier(user_data) ELSE chart_data
    /\ pc' = "generate_ai_book"
    /\ UNCHANGED << signVars, zoneVars, numerologyVars, requestVars, parseVars, resolver_raised, temp_file, response >>
    /\ UNCHANGED pollVars
    /\ UNCHANGED contentVars

\* generate_ai_book: the content generator is built, generate_all is called
\* and the book is rendered, which may raise
GenerateAiBook ==
    /\ pc = "generate_ai_book"
    /\ IF first_name_raises(user_data)
       THEN /\ response' = ServerError("IndexError")
            /\ pc' = "responded"
            /\ UNCHANGED << life_path, expression_number, contentVars >>
       ELSE /\ life_path' = calculate_life_path(Chars(content_birth_date(user_data)))
            /\ expression_number' = calculate_expression_number(Chars(content_name(user_data)))
            /\ \E api \in ApiResults :
                 /\ text_api' = api
                 /\ content' = generate_all(user_data, chart_data, api)
            /\ IF IsRaise(content')
               THEN /\ response' = ServerError(content'.exception)
                    /\ pc' = "responded"
               ELSE \E ok \in BOOLEAN :
                      IF ok
                      THEN /\ pc' = "upload"
                           /\ UNCHANGED response
                      ELSE /\ response' = ServerError("Exception")
                           /\ pc' = "responded"
    /\ UNCHANGED << arg_birth_date, arg_name >>
    /\ UNCHANGED << signVars, zoneVars, requestVars, parseVars, chart_data, resolver_raised, temp_file >>
    /\ UNCHANGED pollVars

\* upload_to_b2, os.unlink and the response of generate_simple
UploadAndRespond ==
    /\ endpoint = "/generate-simple"
    /\ pc = "upload"
    /\ \E uploaded \in BOOLEAN :
        response' = Response(200, "true", IF uploaded THEN "url" ELSE "null", "")
    /\ temp_file' = FALSE
    /\ pc' = "responded"
    /\ UNCHANGED << signVars, zoneVars, numerologyVars, requestVars, parseVars, chart_data, resolver_raised >>
    /\ UNCHANGED pollVars
    /\ UNCHANGED contentVars

\* generate_book_endpoint up to the call of generate_ai_book
GenerateBookEndpoint ==
    /\ endpoint = "/generate"
    /\ pc = "request"
    /\ IF DOMAIN data = {}
       THEN /\ response' = Response(400, "absent", "absent", "No JSON data provided")
            /\ pc' = "responded"
            /\ UNCHANGED << user_data, chart_data, temp_file >>
       ELSE LET ud == DictGet(data, "user_data")
                cd == DictGet(data, "chart_data")
                error == generate_validation_error(ud, cd)
            IN  /\ user_data' = ud
                /\ chart_data' = cd
                /\ IF error # ""
                   THEN /\ response' = Response(400, "absent", "absent", error)
                        /\ pc' = "responded"
                        /\ UNCHANGED temp_file
                   ELSE /\ temp_file' = TRUE
                        /\ pc' = "generate_ai_book"
                        /\ UNCHANGED response
    /\ UNCHANGED << signVars, zoneVars, numerologyVars, endpoint, creds, data, birth_time, geo, sent, datetime_str, parseVars >>
    /\ UNCHANGED resolver_raised
    /\ UNCHANGED pollVars
    /\ UNCHANGED contentVars

\* upload_to_b2, os.unlink and the response of generate_book_endpoint
UploadAndRespondGenerate ==
    /\ endpoint = "/generate"
    /\ pc = "upload"
    /\ \E uploaded \in BOOLEAN :
        response' = IF uploaded
                    THEN Response(200, "true", "url", "")
                    ELSE Response(500, "false", "absent", "Failed to upload to storage")
    /\ temp_file' = FALSE
    /\ pc' = "responded"
    /\ UNCHANGED << signVars, zoneVars, numerologyVars, requestVars, parseVars, chart_data, resolver_raised >>
    /\ UNCHANGED pollVars
    /\ UNCHANGED contentVars

Next ==
    \/ GenerateBookEndpoint
    \/ UploadAndRespondGenerate
    \/ GenerateSimple
    \/ GenerateBook
    \/ GeocodeLocation
    \/ TokenRequest
    \/ PlanetPositionRequest
    \/ KundliRequest
    \/ ParseChartData
    \/ Fallback
    \/ GenerateAiBook
    \/ UploadAndRespond

Spec == Init /\ [][Next]_vars

\* ------------------------------------------------------------------------
\* Claims about the request
\* ------------------------------------------------------------------------

NoCredentials == ~creds.client_id \/ ~creds.client_secret

\* the chart has been handed to generate_ai_book
Handed ==
    /\ endpoint = "/generate-simple"
    /\ pc \in {"generate_ai_book", "upload"} \/ (pc = "responded" /\ chart_data # None)

\* get_chart_from_prokerala has returned a parsed chart
EphemerisTier == chart # None /\ ~IsRaise(chart)

\* caller-supplied values, else 'Aries'
SuppliedOrAries == [k \in ChartKeys |-> IF user_data[k] # "" THEN user_data[k] ELSE "Aries"]

Failed(call, outcomes) ==
    \E i \in 1..Len(sent) : sent[i].call = call /\ sent[i].outcome \in outcomes

\* C1: the resolver never raises to its caller: whatever the geocoding,
\* timezone, token, planet-position and kundli steps come to, it returns a
\* placement set or None.
C1_ResolverNeverRaises ==
    /\ resolver_raised = None
    /\ (pc = "fallback" /\ ~NoCredentials) =>
          \/ chart_data = None
          \/ (DOMAIN chart_data = ChartKeys /\ \A k \in ChartKeys : chart_data[k] \in SignNames)

C1_Witness ==
    /\ pc = "fallback"
    /\ Len(sent) = 4
    /\ IsRaise(chart)
    /\ chart_data = None

\* C2: the chart handed to content generation has a non-empty value for each
\* of the ten keys, and 'Aries' wherever the lookup was absent or failed.
C2_PlacementSetTotal ==
    Handed =>
        /\ DOMAIN chart_data = ChartKeys
        /\ \A k \in ChartKeys : chart_data[k] # ""
        /\ ~EphemerisTier => \A k \in ChartKeys : user_data[k] = "" => chart_data[k] = "Aries"
        /\ EphemerisTier =>
              \A k \in ChartKeys \ {"rising_sign"} :
                  (\A i \in 1..Len(planet_data.planet_position) :
                      LET name == planet_data.planet_position[i].name
                      IN  name \notin DOMAIN planet_name_map \/ planet_name_map[name] # k)
                  => chart_data[k] = "Aries"

C2_Witness ==
    /\ Handed
    /\ ~EphemerisTier
    /\ Failed("planet-position", {"http_error"})
    /\ user_data.sun_sign = "Leo" /\ chart_data.sun_sign = "Leo"
    /\ user_data.moon_sign = "" /\ chart_data.moon_sign = "Aries"

\* C3: every value of the chart handed to content generation is one of the
\* twelve sign names, in every tier.
C3_AllValuesAreSigns ==
    Handed => \A k \in ChartKeys : chart_data[k] \in SignNames

\* C4: without credentials no external request is made, and each of the ten
\* fields is the caller-supplied value when present and 'Aries' when unset.
C4_NoCredentialsNoRequests ==
    NoCredentials =>
        /\ sent = << >>
        /\ pc \notin {"geocode", "token", "planet", "kundli", "parse"}
        /\ Handed => chart_data = SuppliedOrAries

C4_Witness ==
    /\ NoCredentials
    /\ creds.client_id
    /\ Handed
    /\ sent = << >>
    /\ chart_data.sun_sign = "Leo"
    /\ chart_data.moon_sign = "Aries"

TokenOrLocationFailed ==
    \/ Failed("token", {"exception", "http_error", "malformed"})
    \/ Failed("geocode", {"no_results"})

\* C5: with credentials, a failed token request or a geocoding answer with
\* no results gives exactly the chart of the no-credentials case, and the
\* failure is not raised to the caller of generate_book.
C5_FailureGivesDefaultTier ==
    TokenOrLocationFailed =>
        /\ resolver_raised = None
        /\ pc \in {"fallback", "generate_ai_book", "upload", "responded"}
        /\ pc = "fallback" => chart_data = None
        /\ pc # "fallback" => chart_data = SuppliedOrAries

C5_Witness ==
    /\ Failed("token", {"http_error"})
    /\ pc = "upload"
    /\ user_data.venus = "Leo"
    /\ chart_data = SuppliedOrAries

AtMostOnceEach ==
    \A i, j \in 1..Len(sent) : sent[i].call = sent[j].call => i = j

ResolverAt(places) == pc \in places

\* C6: each external request is issued at most once, and the first failure
\* among them ends the ephemeris tier.
C6_FirstFailureEndsTier ==
    /\ AtMostOnceEach
    /\ \A i \in 1..Len(sent) :
          sent[i].outcome # "ok" =>
              /\ i = Len(sent)
              /\ ~ResolverAt({"token", "planet", "kundli", "parse"})
              /\ ~EphemerisTier

\* C6 as amended: a non-success status of the kundli request is the one
\* failure that does not end the tier.
C6_FirstFailureEndsTierButKundliStatus ==
    /\ AtMostOnceEach
    /\ \A i \in 1..Len(sent) :
          sent[i].outcome # "ok" =>
              /\ i = Len(sent)
              /\ IF sent[i] = Called("kundli", "http_error")
                 THEN /\ asc_data = None
                      /\ ~ResolverAt({"geocode", "token", "planet", "kundli"})
                 ELSE /\ ~ResolverAt({"token", "planet", "kundli", "parse"})
                      /\ ~EphemerisTier
                      /\ pc # "fallback" => chart_data = SuppliedOrAries

C6_Witness ==
    /\ pc = "fallback"
    /\ Failed("kundli", {"http_error"})
    /\ EphemerisTier
    /\ chart_data.sun_sign = "Leo"

\* the content generator has computed the numerology profile of the request
ProfileBuilt == pc \in {"upload", "responded"} /\ life_path # None

\* C17: for every request that reaches content generation, the life-path
\* number and the expression number are both in {1..9, 11, 22, 33}.
C17_ProfileNumbersInRange ==
    ProfileBuilt =>
        /\ IsNum(life_path) /\ life_path.num \in {1, 2, 3, 4, 5, 6, 7, 8, 9, 11, 22, 33}
        /\ IsNum(expression_number)
        /\ expression_number.num \in {1, 2, 3, 4, 5, 6, 7, 8, 9, 11, 22, 33}

\* the body carries none of the given fields of /generate-simple
MissingAll(names) == \A n \in names : DataGet(data, n) = ""

BirthDateMissing == MissingAll({"birth_date", "birthDate", "dob"})

BirthPlaceMissing == MissingAll({"birth_place", "birthPlace", "location"})

\* nothing of chart resolution, content generation, rendering or upload
\* has been started
NothingStarted ==
    /\ pc \in {"request", "responded"}
    /\ sent = << >>
    /\ chart_data = None
    /\ life_path = None
    /\ ~temp_file

\* C18: a POST to /generate-simple without birth_date, or without
\* birth_place, under all of their aliases, is answered with 400 and an
\* error that names what is missing, and nothing is started for it.
C18_MissingBirthFieldsRejected ==
    (endpoint = "/generate-simple" /\ DOMAIN data # {}
        /\ (BirthDateMissing \/ BirthPlaceMissing)) =>
        /\ NothingStarted
        /\ pc = "responded" =>
               /\ response.status = 400
               /\ response.error = IF BirthDateMissing THEN "Missing birth_date"
                                   ELSE "Missing birth_place"

C18_Witness ==
    /\ endpoint = "/generate-simple"
    /\ data = Without(BaseRequest, "birth_place")
    /\ pc = "responded"
    /\ response.status = 400
    /\ response.error = "Missing birth_place"

\* the body carries no name and no first or last name
NoNameCarried ==
    /\ DOMAIN data # {}
    /\ IF endpoint = "/generate"
       THEN endpoint_name(DictGet(data, "user_data")) = ""
       ELSE MissingAll({"name", "first_name", "firstName", "last_name", "lastName"})

\* C19: on both endpoints a request without a name is rejected with a 4xx
\* status and no book is generated for it.
C19_NoNameRejected ==
    NoNameCarried =>
        /\ pc \in {"request", "responded"}
        /\ ~temp_file
        /\ pc = "responded" => response.status \in 400..499

\* C20: on both endpoints a response with success true is only sent with
\* status 200 after rendering and upload succeeded, and its download_url is
\* not null; a failed rendering or upload gives 500 with success false.
C20_SuccessCarriesDownloadUrl ==
    pc = "responded" =>
        /\ response.success = "true" =>
               response.status = 200 /\ response.download_url = "url"
        /\ response.download_url = "null" =>
               response.status = 500 /\ response.success = "false"

\* the posted birth time is absent or has an hour in 0..23, and the posted
\* period is AM, PM or absent
PostedTimeInRange ==
    LET t == FirstOf(data, << "birth_time", "birthTime" >>)
        p == FirstOf(data, << "birth_time_period", "birthTimePeriod" >>)
    IN  /\ t = "" \/ (ParseTime(t).numeric /\ ParseTime(t).hour \in 0..23)
        /\ p \in { "AM", "PM", "" }

\* a time with an hour in 00..23
ValidTime(t) ==
    IF "hour" \in DOMAIN t
    THEN t.hour \in 0..23
    ELSE /\ "text" \in DOMAIN t
         /\ ParseTime(t.text).numeric
         /\ ParseTime(t.text).hour \in 0..23

\* C22: for every accepted request whose birth time has an hour in 0..23 (or
\* is absent) and whose period is AM, PM or absent, the birth time handed to
\* the resolver is a 24-hour time with an hour in 00..23
C22_BirthTimeValid ==
    (endpoint = "/generate-simple" /\ birth_time # None /\ PostedTimeInRange) =>
        ValidTime(birth_time)

\* C24: the token request precedes the geocoding request, and after a failed
\* token request no geocoding request is made
C24_TokenBeforeGeocoding ==
    /\ \A i, j \in 1..Len(sent) :
          (sent[i].call = "geocode" /\ sent[j].call = "token") => j < i
    /\ Failed("token", {"exception", "http_error", "malformed"}) =>
          \A i \in 1..Len(sent) : sent[i].call # "geocode"

\* the sign of the last 'Ascendant' record of the planet-position list, else
\* 'Aries'
AscendantRecordSign ==
    LET records == planet_data.planet_position
        at == { i \in 1..Len(records) : records[i].name = "Ascendant" }
    IN  IF at = {} THEN "Aries"
        ELSE planet_sign(records[CHOOSE i \in at : \A j \in at : j <= i])

AfterResolver == pc \in {"fallback", "generate_ai_book", "upload", "responded"}

\* C27: a non-success status of the kundli request leaves the placements
\* parsed from the planet-position response, with the rising sign of the
\* Ascendant record (else 'Aries'); a non-success status of the
\* planet-position request gives the default tier, and no kundli request is
\* made.
C27_KundliStatusKeepsPlacements ==
    /\ (Failed("kundli", {"http_error"}) /\ AfterResolver /\ ~IsRaise(chart)) =>
          /\ EphemerisTier
          /\ chart_data = parse_planet_positions(planet_data.planet_position, DefaultChart)
          /\ chart_data.rising_sign = AscendantRecordSign
    /\ Failed("planet-position", {"http_error"}) =>
          /\ \A i \in 1..Len(sent) : sent[i].call # "kundli"
          /\ AfterResolver
          /\ chart = None
          /\ pc = "fallback" => chart_data = None
          /\ pc # "fallback" => chart_data = SuppliedOrAries

C27_Witness ==
    /\ Failed("kundli", {"http_error"})
    /\ pc = "upload"
    /\ chart_data.sun_sign = "Leo"
    /\ chart_data.rising_sign = "Taurus"
    /\ chart_data.moon_sign = "Aries"

\* C30: when the response is sent, the temporary PDF file the request
\* created has been removed, whether generation and upload succeeded, the
\* upload failed or the generation raised
C30_TempFileRemoved == pc = "responded" => ~temp_file

\* the placement sets the ephemeris tier can return
EphemerisCharts ==
    { c \in { parse_chart_data(p, k) : p \in PlanetPayloads, k \in KundliPayloads \cup {None} } :
        ~IsRaise(c) }

\* the content generator ran on the default tier after a lookup that failed
GeneratedAfterFailedLookup ==
    /\ endpoint = "/generate-simple"
    /\ HasCredentials(creds)
    /\ sent # << >>
    /\ ~EphemerisTier
    /\ content # None

\* C21: the caller cannot tell the tiers apart: a request served from the
\* default tier after a failed lookup is answered as the same request, with
\* the same results of the text API, is answered when the lookup succeeds;
\* in particular the generation fails for the one exactly when it fails for
\* the other, so that the status is the same.
C21_TierNotObservable ==
    GeneratedAfterFailedLookup =>
        \A c \in EphemerisCharts :
            /\ IsRaise(content) <=> IsRaise(generate_all(user_data, c, text_api))
            /\ (pc = "responded" /\ response.status = 500 /\ response.error = "KeyError")
                   => IsRaise(generate_all(user_data, c, text_api))

\* ------------------------------------------------------------------------
\* parse_chart_data on its own: the request stands at the parse step
\* ------------------------------------------------------------------------

SeqsUpTo(S, n) == UNION { [1..m -> S] : m \in 0..n }

\* records of the planet-position list: name, longitude, rasi id
ParseRecords ==
    { Planet("Sun", v[1], v[2]) :
        v \in { << Num(100 * Unit), Missing >>, << Num(6 * Unit), Num(11) >>,
                << Missing, Num(0) >>, << Num(0), Num(11) >>,
                << Num(-10 * Unit), Num(5) >>, << Missing, Num(12) >>,
                << Missing, Missing >>, << Bad, Missing >>, << Missing, Bad >>,
                << Num(6 * Unit - 1), Missing >> } }
    \cup { Planet("Ascendant", v[1], v[2]) :
        v \in { << Num(100 * Unit), Missing >>, << Missing, Num(0) >>,
                << Missing, Missing >> } }
    \cup { Planet("Midheaven", v[1], v[2]) :
        v \in { << Num(100 * Unit), Missing >>, << Missing, Num(3) >> } }
    \cup { Planet("Rahu", Num(250 * Unit), Missing),
           Planet("Ketu", Num(70 * Unit), Missing),
           Planet("Ketu", Bad, Missing) }

PlanetInputs == { Positions(planets) : planets \in SeqsUpTo(ParseRecords, MaxRecords) } \cup { Bad }

KundliInputs ==
    { None, Bad, [ascendant |-> Missing], [ascendant |-> Bad],
      Kundli(Missing), Kundli(Bad), Kundli(Num(0)), Kundli(Num(200 * Unit)) }

InitParse ==
    /\ ZoneIdle
    /\ NumerologyIdle
    /\ arg_longitude = 0
    /\ arg_rasi = 0
    /\ res_sign = Unset
    /\ res_rasi_sign = Unset
    /\ endpoint = "/generate-simple"
    /\ creds = [client_id |-> TRUE, client_secret |-> TRUE]
    /\ data = BaseRequest
    /\ user_data = ensure_name(normalise(BaseRequest))
    /\ pc = "parse"
    /\ birth_time = convert_birth_time("12:00", "PM")
    /\ geo = [latitude |-> 40, longitude |-> 35, timezone |-> "Europe/Paris"]
    /\ planet_data \in PlanetInputs
    /\ asc_data \in KundliInputs
    /\ sent = << Called("geocode", "ok"), Called("token", "ok"),
                 Called("planet-position", "ok"),
                 Called("kundli", IF asc_data = None THEN "http_error" ELSE "ok") >>
    /\ datetime_str = [date |-> user_data.birth_date, time |-> birth_time,
                       offset |-> get_tz_offset(geo.timezone)]
    /\ chart = None
    /\ chart_data = None
    /\ resolver_raised = None
    /\ temp_file = TRUE
    /\ response = None
    /\ PollIdle
    /\ ContentIdle

NextParse == ParseChartData

SpecParse == InitParse /\ [][NextParse]_vars

\* parse_chart_data returned a chart
Parsed == pc = "fallback" /\ EphemerisTier

\* the name under which the response carries each tracked point
PointRecordName ==
    [ sun_sign |-> "Sun", moon_sign |-> "Moon", rising_sign |-> "Ascendant",
      mercury |-> "Mercury", venus |-> "Venus", mars |-> "Mars",
      jupiter |-> "Jupiter", saturn |-> "Saturn", midheaven |-> "Midheaven",
      north_node |-> "Rahu" ]

\* the kundli body carries an ascendant with a positive longitude
KundliAscendantPositive ==
    /\ asc_data \notin {None, Bad}
    /\ asc_data.ascendant \notin {Missing, Bad}
    /\ IsNum(asc_data.ascendant.longitude)
    /\ asc_data.ascendant.longitude.num > 0

KundliAscendantAbsent == asc_data = None \/ asc_data.ascendant = Missing

\* the indexes of the records for point k that carry a positive longitude
PositiveRecords(k) ==
    { i \in 1..Len(planet_data.planet_position) :
        LET planet == planet_data.planet_position[i]
        IN  /\ planet.name = PointRecordName[k]
            /\ IsNum(planet.longitude)
            /\ planet.longitude.num > 0 }

\* C9: each of the ten tracked points takes its sign from the response:
\* when the planet-position response carries a record for the point with a
\* positive longitude, its placement is the sign of that longitude (Rising
\* as long as the kundli response does not override it).
C9_PointsFromEphemeris ==
    Parsed =>
        \A k \in ChartKeys :
            (PositiveRecords(k) # {} /\ ~(k = "rising_sign" /\ KundliAscendantPositive))
            => \E i \in PositiveRecords(k) :
                  chart[k] = longitude_to_tropical_sign(
                                 planet_data.planet_position[i].longitude.num)

\* C10: a kundli ascendant with a positive longitude decides rising_sign
\* whatever the planet-position response gave; without a kundli ascendant
\* rising_sign keeps the planet-position value; the other nine placements
\* are those of the planet-position response.
C10_KundliOverridesRising ==
    Parsed =>
        LET positions == parse_planet_positions(planet_data.planet_position, DefaultChart)
        IN  /\ KundliAscendantPositive =>
                  chart.rising_sign =
                      longitude_to_tropical_sign(asc_data.ascendant.longitude.num)
            /\ KundliAscendantAbsent => chart.rising_sign = positions.rising_sign
            /\ \A k \in ChartKeys \ {"rising_sign"} : chart[k] = positions[k]

C10_Witness ==
    /\ Parsed
    /\ planet_data = Positions(<< Planet("Ascendant", Num(100 * Unit), Missing),
                                  Planet("Sun", Num(6 * Unit), Num(11)) >>)
    /\ asc_data = Kundli(Num(200 * Unit))
    /\ chart.rising_sign = "Scorpio"
    /\ chart.sun_sign = "Taurus"

\* the sign the stated precedence gives one record: the longitude path for a
\* positive longitude, else the rasi path for an id in 0..11, else 'Aries'
PrecedenceSign(record) ==
    IF IsNum(record.longitude) /\ record.longitude.num > 0
    THEN longitude_to_tropical_sign(record.longitude.num)
    ELSE IF IsNum(record.rasi) /\ record.rasi.num \in 0..11
    THEN ZODIAC_SIGNS[((record.rasi.num + 1) % 12) + 1]
    ELSE "Aries"

\* the indexes of the records whose name the parser maps to placement k
RecordsFor(k) ==
    { i \in 1..Len(planet_data.planet_position) :
        LET name == planet_data.planet_position[i].name
        IN  name \in DOMAIN planet_name_map /\ planet_name_map[name] = k }

\* C23: every record with a tracked name sets its placement by a fixed
\* precedence (positive longitude: the longitude path, even when a rasi id
\* is there; else a rasi id in 0..11: the sign at (id + 1) mod 12, so 11
\* gives Aries and 0 gives Taurus; else 'Aries'), the last such record
\* deciding; records with other names change nothing.
C23_RecordPrecedence ==
    /\ ZODIAC_SIGNS[((11 + 1) % 12) + 1] = "Aries"
    /\ ZODIAC_SIGNS[((0 + 1) % 12) + 1] = "Taurus"
    /\ Parsed =>
        \A k \in ChartKeys :
            (k # "rising_sign" \/ ~KundliAscendantPositive) =>
                chart[k] = IF RecordsFor(k) = {} THEN "Aries"
                           ELSE PrecedenceSign(planet_data.planet_position[
                                    CHOOSE i \in RecordsFor(k) :
                                        \A j \in RecordsFor(k) : j <= i])

C23_Witness ==
    /\ Parsed
    /\ planet_data = Positions(<< Planet("Sun", Num(6 * Unit), Num(11)),
                                  Planet("Ketu", Num(70 * Unit), Missing) >>)
    /\ asc_data = None
    /\ chart.sun_sign = "Taurus"
    /\ chart = [DefaultChart EXCEPT !["sun_sign"] = "Taurus"]

\* ------------------------------------------------------------------------
\* The sign mapper on its own: both conversion paths applied to one input
\* ------------------------------------------------------------------------

\* the request variables while only the sign mapper is exercised
RequestIdle ==
    /\ endpoint = "/generate-simple"
    /\ creds = [client_id |-> FALSE, client_secret |-> FALSE]
    /\ data = << >>
    /\ user_data = None
    /\ birth_time = None
    /\ geo = None
    /\ sent = << >>
    /\ datetime_str = None
    /\ planet_data = None
    /\ asc_data = None
    /\ chart = None
    /\ chart_data = None
    /\ resolver_raised = None
    /\ temp_file = FALSE
    /\ response = None

\* whole degrees in steps of 6 on both sides of [0, 360)
WholeLongitudes == { 6 * k * Unit : k \in -66..125 }

\* the sidereal longitudes at which a tropical sign begins, and -24
BoundaryDegrees == { 30 * k + 6 : k \in -1..11 }

\* the floats next to a boundary, on either side
NearBoundaryLongitudes ==
    { n \in { b * Unit + d : b \in BoundaryDegrees, d \in {-64, -4, -1, 1, 4, 64} } :
        IsFloat(n) }

SignLongitudes == WholeLongitudes \cup NearBoundaryLongitudes

RasiIds == -1..12

InitSign ==
    /\ ZoneIdle
    /\ NumerologyIdle
    /\ arg_longitude \in SignLongitudes
    /\ arg_rasi \in RasiIds
    /\ res_sign = Unset
    /\ res_rasi_sign = Unset
    /\ pc = "sign"
    /\ RequestIdle
    /\ PollIdle
    /\ ContentIdle

ConvertLongitude ==
    /\ res_sign = Unset
    /\ res_sign' = longitude_to_tropical_sign(arg_longitude)
    /\ UNCHANGED << arg_longitude, arg_rasi, res_rasi_sign >>
    /\ UNCHANGED << zoneVars, numerologyVars, pc, requestVars, parseVars, resultVars >>
    /\ UNCHANGED pollVars
    /\ UNCHANGED contentVars

ConvertRasi ==
    /\ res_rasi_sign = Unset
    /\ res_rasi_sign' = tropical_rasi_sign(arg_rasi)
    /\ UNCHANGED << arg_longitude, arg_rasi, res_sign >>
    /\ UNCHANGED << zoneVars, numerologyVars, pc, requestVars, parseVars, resultVars >>
    /\ UNCHANGED pollVars
    /\ UNCHANGED contentVars

NextSign == ConvertLongitude \/ ConvertRasi

SpecSign == InitSign /\ [][NextSign]_vars

\* floor(((L + 24) mod 360) / 30) in exact arithmetic
ExactSignIndex(L) == ((L + AYANAMSA * Unit) % (360 * Unit)) \div (30 * Unit)

\* C7: for every longitude, negative and >= 360 included, the sign returned
\* is the one at index floor(((L + 24) mod 360) / 30), an index within 0..11.
C7_LongitudeToSignExact ==
    res_sign # Unset =>
        /\ sign_index(arg_longitude) \in 0..11
        /\ res_sign = ZODIAC_SIGNS[ExactSignIndex(arg_longitude) + 1]

\* C8: at a longitude where a tropical sign begins, the longitude path and
\* the rasi path applied to the rasi that contains the longitude agree.
C8_PathsAgreeAtBoundaries ==
    ( /\ res_sign # Unset
      /\ res_rasi_sign # Unset
      /\ 0 <= arg_longitude /\ arg_longitude < 360 * Unit
      /\ (arg_longitude + AYANAMSA * Unit) % (30 * Unit) = 0
      /\ arg_rasi = arg_longitude \div (30 * Unit) )
    => res_sign = res_rasi_sign

C8_Witness ==
    /\ arg_longitude = 336 * Unit
    /\ arg_rasi = 11
    /\ res_sign = "Aries"
    /\ res_rasi_sign = "Aries"

\* both paths have been applied to a longitude in (0, 360) and to the rasi
\* that contains it
BothPathsApplied ==
    /\ res_sign # Unset
    /\ res_rasi_sign # Unset
    /\ 0 < arg_longitude /\ arg_longitude < 360 * Unit
    /\ arg_rasi = arg_longitude \div (30 * Unit)

\* the sign one position after a sign
SignAfter(sign_name) ==
    LET i == CHOOSE i \in 1..12 : ZODIAC_SIGNS[i] = sign_name
    IN  ZODIAC_SIGNS[(i % 12) + 1]

\* L mod 30 >= 6
SixDegreesIntoRasi == arg_longitude % (30 * Unit) >= 6 * Unit

SumIsExact == FloatAdd(arg_longitude, AYANAMSA * Unit) = arg_longitude + AYANAMSA * Unit

ZonePlaces ==
    { "Paris", "Paris, France", "LONDON", "New York, UK", "Milwaukee", "Tokyo",
      "Beirut, Lebanon", "Reading, Pennsylvania, USA", "Springfield" }

ZoneLatitudes == { -33, 40 }

\* the edges of the longitude bands, their neighbours, and the ends
ZoneLongitudes ==
    { -180, -101, -100, -99, -70, -61, -60, -59, -1, 0, 1, 29, 30, 31,
      59, 60, 61, 99, 100, 101, 129, 130, 131, 180 }

InitZone ==
    /\ SignIdle
    /\ NumerologyIdle
    /\ arg_place \in ZonePlaces
    /\ arg_lat \in ZoneLatitudes
    /\ arg_lon \in ZoneLongitudes
    /\ arg_lib \in LibraryOutcomes
    /\ res_timezone = Unset
    /\ res_offset = Unset
    /\ pc = "timezone"
    /\ RequestIdle
    /\ PollIdle
    /\ ContentIdle

\* geocode_location: timezone = get_timezone_from_coords(lat, lon, place_name)
ResolveTimezone ==
    /\ res_timezone = Unset
    /\ res_timezone' = get_timezone_from_coords(arg_lat, arg_lon, arg_place, arg_lib)
    /\ UNCHANGED << arg_place, arg_lat, arg_lon, arg_lib, res_offset >>
    /\ UNCHANGED << signVars, numerologyVars, pc, requestVars, parseVars, resultVars >>
    /\ UNCHANGED pollVars
    /\ UNCHANGED contentVars

\* get_birth_chart: get_tz_offset(timezone), for the datetime parameter
OffsetOfTimezone ==
    /\ res_timezone # Unset
    /\ res_offset = Unset
    /\ res_offset' = get_tz_offset(res_timezone)
    /\ UNCHANGED << arg_place, arg_lat, arg_lon, arg_lib, res_timezone >>
    /\ UNCHANGED << signVars, numerologyVars, pc, requestVars, parseVars, resultVars >>
    /\ UNCHANGED pollVars
    /\ UNCHANGED contentVars

NextZone == ResolveTimezone \/ OffsetOfTimezone

SpecZone == InitZone /\ [][NextZone]_vars

\* the heuristic has answered: the library gave no zone for the call
HeuristicAnswered == res_timezone # Unset /\ arg_lib \in LibraryFailures

\* C11: with the library unavailable, a place that contains a keyword gets
\* the zone of the first keyword check that matches, in the fixed order,
\* whatever the coordinates; 'Paris' gives Europe/Paris.
C11_KeywordBeforeBand ==
    HeuristicAnswered =>
        LET place_lower == Lower(Chars(arg_place))
            matched(i) == \E k \in KeywordZones[i].keywords : Contains(place_lower, Chars(k))
        IN  /\ \A i \in 1..Len(KeywordZones) :
                 (matched(i) /\ \A j \in 1..(i - 1) : ~matched(j))
                     => res_timezone = KeywordZones[i].zone
            /\ Contains(place_lower, Chars("paris")) => res_timezone = "Europe/Paris"

C11_Witness ==
    /\ arg_place = "New York, UK"
    /\ arg_lon = -70
    /\ arg_lib = "ImportError"
    /\ res_timezone = "Europe/London"

\* the eight bands of the claim: band k starts at BandEdges[k - 1] and ends
\* before BandEdges[k]; the first has no lower and the last no upper edge
BandEdges == << -100, -60, 0, 30, 60, 100, 130 >>

BandZones ==
    << "America/Los_Angeles", "America/New_York", "Europe/London", "Europe/Paris",
       "Asia/Dubai", "Asia/Kolkata", "Asia/Shanghai", "Asia/Tokyo" >>

InBand(k, lon) ==
    /\ k = 1 \/ BandEdges[k - 1] <= lon
    /\ k = 8 \/ lon < BandEdges[k]

\* C12: with no keyword match and the library unavailable, the longitude
\* lies in exactly one of the eight half-open bands and the zone returned is
\* that band's.
C12_LongitudeBands ==
    (HeuristicAnswered /\ KeywordsIn(arg_place) = {}) =>
        /\ Cardinality({ k \in 1..8 : InBand(k, arg_lon) }) = 1
        /\ \A k \in 1..8 : InBand(k, arg_lon) => res_timezone = BandZones[k]

C12_Witness ==
    /\ arg_place = "Springfield"
    /\ arg_lon = -70
    /\ arg_lib = "no zone"
    /\ res_timezone = "America/New_York"

\* the timezone identifiers the lookup can answer with
ZoneIds ==
    { KeywordZones[i].zone : i \in 1..Len(KeywordZones) }
    \cup { BandZones[k] : k \in 1..8 }
    \cup (LibraryOutcomes \ LibraryFailures)

\* C13: get_timezone_from_coords always returns a timezone identifier: the
\* library's zone when it gives one, the heuristic's zone when the library
\* is not installed, raises, or gives no zone.
C13_TimezoneAlwaysResolved ==
    res_timezone # Unset =>
        /\ res_timezone \in ZoneIds
        /\ arg_lib \notin LibraryFailures => res_timezone = arg_lib
        /\ arg_lib \in LibraryFailures =>
               res_timezone = guess_timezone_from_coords(arg_lat, arg_lon, arg_place)

C13_Witness ==
    /\ arg_place = "Springfield"
    /\ arg_lon = 0
    /\ arg_lib = "error"
    /\ res_timezone = "Europe/Paris"

\* C28: every zone the keyword match or the longitude band returns has its
\* own entry in the offsets table, so the '+00:00' default is only ever
\* given for a zone the library resolved.
C28_HeuristicZonesHaveOffsets ==
    /\ (res_offset # Unset /\ HeuristicAnswered) =>
          /\ res_timezone \in DOMAIN offsets
          /\ res_offset = offsets[res_timezone]
    /\ (res_offset # Unset /\ res_timezone \notin DOMAIN offsets) =>
          /\ arg_lib \notin LibraryFailures
          /\ res_timezone = arg_lib
          /\ res_offset = "+00:00"
    /\ \A i \in 1..Len(KeywordZones) : KeywordZones[i].zone \in DOMAIN offsets
    /\ \A k \in 1..Len(BandZones) : BandZones[k] \in DOMAIN offsets

C28_Witness ==
    /\ HeuristicAnswered
    /\ arg_place = "Beirut, Lebanon"
    /\ res_timezone = "Asia/Beirut"
    /\ res_offset = "+02:00"

\* ------------------------------------------------------------------------
\* The numerology calculator on its own
\* ------------------------------------------------------------------------

\* longest name the expression number is computed for
MaxName == 4

\* digits, padded with zeros on the left to the given width
RECURSIVE Pad(_, _)
Pad(s, width) == IF Len(s) >= width THEN s ELSE Pad(<< "0" >> \o s, width)

\* the date written as YYYY-MM-DD
FormatDate(year, month, day) ==
    Pad(Str(year), 4) \o << "-" >> \o Pad(Str(month), 2) \o << "-" >> \o Pad(Str(day), 2)

Years == { 1, 29, 1900, 1989, 1999, 2000, 2024, 9999 }

ValidDates ==
    { FormatDate(t[1], t[2], t[3]) :
        t \in { u \in Years \X (1..12) \X (1..31) : u[3] <= DaysIn(u[2], u[1]) } }

\* the other birth dates: malformed, out of range, and long form
OtherDates ==
    { Chars(t) : t \in
        { "", "1989-12", "1989-xx-13", "1989--13", "abc", "12/13/1989",
          "2000-01-01-junk", "1989-12-13T10:00", "0000-00-00", " 1989 - 12 - 13 ",
          "+1989-12-13", "December 13, 1989", "December 3, 1989",
          "December  03,  1989", "December 32, 1989", "February 29, 1989",
          "February 29, 2000", "December 13 1989", "December 13, 89",
          "13 December 1989" } }

NameAlphabet == { "a", "I", "d", "Z", " ", "7", "e_acute" }

Names == UNION { [1..n -> NameAlphabet] : n \in 0..MaxName }

InitNumerology ==
    /\ SignIdle
    /\ ZoneIdle
    /\ \/ arg_birth_date \in ValidDates \cup OtherDates /\ arg_name = << >>
       \/ arg_birth_date = << >> /\ arg_name \in Names
    /\ life_path = None
    /\ expression_number = None
    /\ pc = "numerology"
    /\ RequestIdle
    /\ PollIdle
    /\ ContentIdle

CalculateLifePath ==
    /\ life_path = None
    /\ life_path' = calculate_life_path(arg_birth_date)
    /\ UNCHANGED << arg_birth_date, arg_name, expression_number >>
    /\ UNCHANGED << signVars, zoneVars, pc, requestVars, parseVars, resultVars >>
    /\ UNCHANGED pollVars
    /\ UNCHANGED contentVars

CalculateExpressionNumber ==
    /\ expression_number = None
    /\ expression_number' = calculate_expression_number(arg_name)
    /\ UNCHANGED << arg_birth_date, arg_name, life_path >>
    /\ UNCHANGED << signVars, zoneVars, pc, requestVars, parseVars, resultVars >>
    /\ UNCHANGED pollVars
    /\ UNCHANGED contentVars

NextNumerology == CalculateLifePath \/ CalculateExpressionNumber

SpecNumerology == InitNumerology /\ [][NextNumerology]_vars

\* the values a numerology number may take
NumerologyValues == (1..9) \cup {11, 22, 33}

\* the sum of the decimal digits of n
RECURSIVE DecimalDigitSum(_)
DecimalDigitSum(n) == IF n < 10 THEN n ELSE (n % 10) + DecimalDigitSum(n \div 10)

\* the reduction as the specification words it
RECURSIVE Reduction(_)
Reduction(n) ==
    IF n \in (0..9) \cup {11, 22, 33} THEN n ELSE Reduction(DecimalDigitSum(n))

\* s reads YYYY-MM-DD with a month of the year and a day of that month
IsValidDateText(s) ==
    /\ Len(s) = 10
    /\ s[5] = "-" /\ s[8] = "-"
    /\ \A i \in {1, 2, 3, 4, 6, 7, 9, 10} : IsDigit(s[i])
    /\ LET y == 1000 * DigitValue(s[1]) + 100 * DigitValue(s[2])
                 + 10 * DigitValue(s[3]) + DigitValue(s[4])
           m == 10 * DigitValue(s[6]) + DigitValue(s[7])
           d == 10 * DigitValue(s[9]) + DigitValue(s[10])
       IN  y >= 1 /\ m \in 1..12 /\ d \in 1..DaysIn(m, y)

\* C14: for a valid hyphen-separated date the life path is the reduction of
\* the digit sums of year, month and day, a value in {1..9, 11, 22, 33};
\* '1989-12-13' gives 7.
C14_LifePathOfValidDate ==
    life_path # None =>
        /\ IsValidDateText(arg_birth_date) =>
               /\ life_path =
                      Num(Reduction(DigitValue(arg_birth_date[1]) + DigitValue(arg_birth_date[2])
                                    + DigitValue(arg_birth_date[3]) + DigitValue(arg_birth_date[4])
                                    + DigitValue(arg_birth_date[6]) + DigitValue(arg_birth_date[7])
                                    + DigitValue(arg_birth_date[9]) + DigitValue(arg_birth_date[10])))
               /\ life_path.num \in NumerologyValues
        /\ arg_birth_date = Chars("1989-12-13") => life_path = Num(7)

C14_Witness ==
    /\ arg_birth_date = Chars("1989-12-13")
    /\ IsValidDateText(arg_birth_date)
    /\ life_path = Num(7)

\* the string is a long-form 'Month Day, Year' date
IsLongForm(s) == ~IsRaise(strptime_long_form(s))

\* the string is three hyphen-separated integers
IsYearMonthDay(s) ==
    LET parts == Split(s, "-")
    IN  Len(parts) = 3 /\ \A i \in 1..3 : IsNum(ParseInt(parts[i]))

\* the string starts with three hyphen-separated integers
StartsWithYearMonthDay(s) ==
    LET parts == Split(s, "-")
    IN  Len(parts) >= 3 /\ \A i \in 1..3 : IsNum(ParseInt(parts[i]))

\* C15 as stated: a birth date that is neither three hyphen-separated
\* integers nor a long-form date gives 7, and nothing is raised.
C15_UnparseableGivesSeven ==
    life_path # None =>
        /\ IsNum(life_path)
        /\ (~IsYearMonthDay(arg_birth_date) /\ ~IsLongForm(arg_birth_date))
               => life_path = Num(7)

\* C15, amended: nothing is raised, and a birth date that is not a long-form
\* date and does not start with three hyphen-separated integers gives 7
\* (components after the third are ignored).
C15_UnparseableGivesSevenUnlessPrefixParses ==
    life_path # None =>
        /\ IsNum(life_path)
        /\ (~StartsWithYearMonthDay(arg_birth_date) /\ ~IsLongForm(arg_birth_date))
               => life_path = Num(7)

C15_Witness ==
    /\ arg_birth_date = Chars("1989-12")
    /\ ~StartsWithYearMonthDay(arg_birth_date)
    /\ life_path = Num(7)

\* the Pythagorean value of a letter: A, J, S = 1 ... I, R = 9; 0 otherwise
PythagoreanValue(c) ==
    LET i == IF IndexIn(c, Uppercase) > 0 THEN IndexIn(c, Uppercase)
             ELSE IndexIn(c, Lowercase)
    IN  IF i > 0 THEN ((i - 1) % 9) + 1 ELSE 0

RECURSIVE PythagoreanSum(_)
PythagoreanSum(name) ==
    IF name = << >> THEN 0 ELSE PythagoreanValue(Head(name)) + PythagoreanSum(Tail(name))

\* C16: the expression number is the reduction of the sum of the Pythagorean
\* values of the letters of the name, in either case, everything else being
\* ignored; a name without letters gives 0.
C16_ExpressionNumberOfLetters ==
    expression_number # None =>
        /\ expression_number = Num(Reduction(PythagoreanSum(arg_name)))
        /\ (\A i \in 1..Len(arg_name) :
                IndexIn(arg_name[i], Uppercase) = 0 /\ IndexIn(arg_name[i], Lowercase) = 0)
               => expression_number = Num(0)

C16_Witness ==
    /\ arg_name = << "I", "7", "I", "d" >>
    /\ expression_number = Num(22)

\* ------------------------------------------------------------------------
\* call_claude_api on its own: one prediction, created and polled
\* ------------------------------------------------------------------------

\* range(90)
PollLimit == 90

\* what the request that creates the prediction can come to ("no_url": a
\* body without urls.get)
CreateOutcomes == { "ok", "no_url", "http_error", "exception", "malformed" }

\* the status a poll reports, or "exception" when the request or the
\* decoding of its body raises
PollOutcomes ==
    { "starting", "processing", "succeeded", "failed", "canceled", "exception" }

\* the 'output' of a prediction that succeeded
Outputs ==
    { Text("Hello"), [list |-> << Text("Hel"), Text("lo") >>], [list |-> << >>],
      [list |-> << Text("Hel"), Num(1) >>], Missing, None }

\* "".join(output)
RECURSIVE Join(_)
Join(list) ==
    IF list = << >> THEN Text("")
    ELSE IF "text" \notin DOMAIN Head(list) THEN Raise("TypeError")
    ELSE LET rest == Join(Tail(list))
         IN  IF IsRaise(rest) THEN rest ELSE Text(Head(list).text \o rest.text)

\* what call_claude_api returns at the poll that reports 'succeeded'; an
\* exception of the join is caught by its except clause
succeeded_output(output) ==
    IF output = Missing THEN Text("")
    ELSE IF "list" \in DOMAIN output
    THEN LET joined == Join(output.list)
         IN  IF IsRaise(joined) THEN None ELSE joined
    ELSE output

InitPoll ==
    /\ SignIdle
    /\ ZoneIdle
    /\ NumerologyIdle
    /\ RequestIdle
    /\ PollIdle
    /\ pc = "create"
    /\ ContentIdle

\* requests.post, raise_for_status, response.json() and urls.get
CreatePrediction ==
    /\ pc = "create"
    /\ \E outcome \in CreateOutcomes :
         IF outcome = "ok"
         THEN pc' = "poll"
         ELSE pc' = "returned"
    /\ UNCHANGED pollVars
    /\ UNCHANGED << signVars, zoneVars, numerologyVars, requestVars, parseVars, resultVars >>
    /\ UNCHANGED contentVars

\* mutant of PollPrediction: a 'failed' status is polled again like a
\* pending one
PollPredictionPastFailed ==
    /\ pc = "poll"
    /\ polls < PollLimit
    /\ polls' = polls + 1
    /\ \E status \in PollOutcomes, output \in Outputs :
        /\ poll_status' = status
        /\ poll_output' = IF status = "succeeded" THEN output ELSE None
        /\ CASE status = "succeeded" ->
                  /\ api_result' = succeeded_output(output)
                  /\ pc' = "returned"
             [] status = "exception" ->
                  /\ api_result' = None
                  /\ pc' = "returned"
             [] OTHER ->
                  /\ api_result' = None
                  /\ pc' = IF polls' = PollLimit THEN "returned" ELSE "poll"
    /\ UNCHANGED << signVars, zoneVars, numerologyVars, requestVars, parseVars, resultVars >>
    /\ UNCHANGED contentVars

\* one turn of the for loop: the status request and what it leads to; the
\* loop ends without a result after the last turn
PollPrediction ==
    /\ pc = "poll"
    /\ polls < PollLimit
    /\ polls' = polls + 1
    /\ \E status \in PollOutcomes, output \in Outputs :
        /\ poll_status' = status
        /\ poll_output' = IF status = "succeeded" THEN output ELSE None
        /\ CASE status = "succeeded" ->
                  /\ api_result' = succeeded_output(output)
                  /\ pc' = "returned"
             [] status \in {"failed", "exception"} ->
                  /\ api_result' = None
                  /\ pc' = "returned"
             [] OTHER ->
                  /\ api_result' = None
                  /\ pc' = IF polls' = PollLimit THEN "returned" ELSE "poll"
    /\ UNCHANGED << signVars, zoneVars, numerologyVars, requestVars, parseVars, resultVars >>
    /\ UNCHANGED contentVars

NextPoll == CreatePrediction \/ PollPrediction

\* the calls of call_claude_api follow one another without waiting on
\* anything but the timeouts of the requests
SpecPoll == InitPoll /\ [][NextPoll]_vars /\ WF_vars(NextPoll)

\* what is returned for a status and an output
PollLoopCases ==
    /\ polls \in 0..PollLimit
    /\ pc = "poll" =>
          /\ polls < PollLimit
          /\ polls > 0 => poll_status \notin {"succeeded", "failed", "exception"}
    /\ pc = "returned" =>
          IF poll_status = "succeeded"
          THEN /\ poll_output = Text("Hello") => api_result = Text("Hello")
               /\ poll_output = [list |-> << Text("Hel"), Text("lo") >>] =>
                      api_result = Text("Hello")
               /\ api_result = None \/ "text" \in DOMAIN api_result
          ELSE /\ api_result = None
               /\ \/ polls = 0
                  \/ poll_status \in {"failed", "exception"}
                  \/ polls = PollLimit

\* C25: call_claude_api polls at most 90 times and always returns: the
\* output at the first 'succeeded', no result at the first 'failed', after
\* 90 polls without either, and whenever the create request or a poll
\* raises; it never raises itself.
C25_PollLoopBoundedAndTerminates == []PollLoopCases /\ <>(pc = "returned")

C25_Witness ==
    /\ pc = "returned"
    /\ polls = PollLimit
    /\ poll_status = "processing"
    /\ api_result = None

\* ------------------------------------------------------------------------
\* generate_all on its own: one questionnaire, one placement set, and the
\* results of the text API
\* ------------------------------------------------------------------------

\* questionnaires as the two endpoints hand them on
ContentUsers ==
    { ensure_name(normalise(BaseRequest)),
      ensure_name(normalise(("important_dates" :> "birthday") @@ BaseRequest)),
      ("name" :> "Ann") }

\* placement sets of the fallback tier and of the bodies posted to /generate
ContentCharts ==
    { default_tier(ensure_name(normalise(r))) :
        r \in { BaseRequest }
              \cup { (f :> v) @@ BaseRequest :
                       f \in { "sun_sign", "moon_sign", "rising_sign" },
                       v \in SuppliedValues } }
    \cup GenerateCharts

InitContent ==
    /\ SignIdle
    /\ ZoneIdle
    /\ NumerologyIdle
    /\ PollIdle
    /\ endpoint = "/generate"
    /\ creds = [client_id |-> FALSE, client_secret |-> FALSE]
    /\ data = << >>
    /\ user_data \in ContentUsers
    /\ birth_time = None
    /\ geo = None
    /\ sent = << >>
    /\ datetime_str = None
    /\ planet_data = None
    /\ asc_data = None
    /\ chart = None
    /\ chart_data \in ContentCharts
    /\ resolver_raised = None
    /\ temp_file = TRUE
    /\ response = None
    /\ text_api \in ApiResults
    /\ content = None
    /\ pc = "generate_all"

\* content = ai_gen.generate_all()
GenerateAll ==
    /\ pc = "generate_all"
    /\ content' = generate_all(user_data, chart_data, text_api)
    /\ pc' = "generated"
    /\ UNCHANGED << signVars, zoneVars, numerologyVars, requestVars, parseVars, resultVars >>
    /\ UNCHANGED << pollVars, text_api >>

NextContent == GenerateAll

SpecContent == InitContent /\ [][NextContent]_vars

\* C29: for any results of the text API and any placement set, strings that
\* are not sign names included, generate_all returns without raising, every
\* core section holds the API text or its fallback text, and the
\* compatibility and monthly maps have an entry for each of the 12 signs
\* and each of the 12 months.
C29_ContentAlwaysTotal ==
    pc = "generated" =>
        /\ ~IsRaise(content)
        /\ \A i \in 1..Len(CoreSections) :
              /\ CoreSections[i] \in DOMAIN content
              /\ content[CoreSections[i]] \in
                     { text_api[CoreSections[i]], FallbackText(CoreSections[i]) }
        /\ DOMAIN content["compatibility"] = { ZODIAC_ORDER[i] : i \in 1..12 }
        /\ DOMAIN content["monthly"] = { all_months[i] : i \in 1..12 }

====
